---- MODULE Spec2Model ----
(***************************************************************************)
(* A model of the path stroker of ori-core                                 *)
(* (crates/ori-core/src/canvas/stroke.rs): Curve::stroke_impl, the join    *)
(* and cap generators and the bezier offset approximator.                  *)
(*                                                                         *)
(* Numbers.  An f32 is modelled in fixed point: the integer a stands for   *)
(* the real a / Unit.  Sums and differences are exact; a product or a      *)
(* quotient is rounded to the nearest 1 / Unit, as f32 rounds to the       *)
(* nearest representable value.  Every value with at most four binary,     *)
(* three ternary and one quinary digit after the point is exact, so the    *)
(* axis-aligned cases are exact.  Signed zeros and NaN are not modelled.   *)
(*                                                                         *)
(* Curve (canvas/curve.rs) and Point / Vector (layout) are not among the   *)
(* source files; their operations are modelled from the specification's   *)
(* sections 3, 4.1, 4.2 and 6.                                             *)
(***************************************************************************)
EXTENDS Integers, Sequences, FiniteSets, TLC

\* One world unit in model steps.
Unit == 2 * 2 * 2 * 2 * 3 * 3 * 3 * 5

Abs(a) == IF a < 0 THEN -a ELSE a

Sgn(a) == IF a < 0 THEN -1 ELSE IF a > 0 THEN 1 ELSE 0

\* a / b rounded to the nearest integer (b # 0).
RDiv(a, b) == Sgn(a) * Sgn(b) * ((2 * Abs(a) + Abs(b)) \div (2 * Abs(b)))

\* f32 multiplication and division.
FMul(a, b) == RDiv(a * b, Unit)

FDiv(a, b) == RDiv(a * Unit, b)

RECURSIVE SqrtSearch(_, _, _)
SqrtSearch(n, lo, hi) ==
    IF hi - lo <= 1 THEN lo
    ELSE LET mid == (lo + hi) \div 2
         IN  IF mid * mid <= n THEN SqrtSearch(n, mid, hi)
             ELSE SqrtSearch(n, lo, mid)

\* The integer nearest to the square root of n (0 <= n < 2^31).
ISqrt(n) ==
    LET s == SqrtSearch(n, 0, 46341)
    IN  IF n - s * s > s THEN s + 1 ELSE s

\* f32::sqrt.
FSqrt(a) == ISqrt(a * Unit)

(***************************************************************************)
(* Point and Vector.                                                       *)
(***************************************************************************)
Vec(x, y) == [x |-> x, y |-> y]

ZERO == Vec(0, 0)

VAdd(a, b) == Vec(a.x + b.x, a.y + b.y)

VSub(a, b) == Vec(a.x - b.x, a.y - b.y)

VNeg(a) == Vec(-a.x, -a.y)

\* vector * f32 and vector / f32
VMul(a, s) == Vec(FMul(a.x, s), FMul(a.y, s))

VDiv(a, s) == Vec(FDiv(a.x, s), FDiv(a.y, s))

Dot(a, b) == RDiv(a.x * b.x + a.y * b.y, Unit)

Cross(a, b) == RDiv(a.x * b.y - a.y * b.x, Unit)

Length(a) ==
    IF a.y = 0 THEN Abs(a.x)
    ELSE IF a.x = 0 THEN Abs(a.y)
    ELSE ISqrt(a.x * a.x + a.y * a.y)

\* The rotation by 90 degrees that turns a tangent into a normal.
Hat(a) == Vec(-a.y, a.x)

\* The unit vector of a; the zero vector for the zero vector.
Normalize(a) == IF Length(a) = 0 THEN ZERO ELSE VDiv(a, Length(a))

Lerp(p, q, t) == VAdd(p, VMul(VSub(q, p), t))

T0 == 0

THalf == Unit \div 2

TThird == Unit \div 3

TTwoThirds == (2 * Unit) \div 3

T1 == Unit

(***************************************************************************)
(* Curve: a sequence of segments.  Every segment is a record of the same   *)
(* shape; the fields a kind does not use are zero.                         *)
(***************************************************************************)
Seg(k, c1, c2, p, weight) ==
    [k |-> k, c1 |-> c1, c2 |-> c2, p |-> p, w |-> weight]

Move(p) == Seg("Move", ZERO, ZERO, p, 0)

Line(p) == Seg("Line", ZERO, ZERO, p, 0)

Quad(p1, p2) == Seg("Quad", p1, ZERO, p2, 0)

Conic(p1, p2, weight) == Seg("Conic", p1, ZERO, p2, weight)

Cubic(p1, p2, p3) == Seg("Cubic", p1, p2, p3, 0)

Close == Seg("Close", ZERO, ZERO, ZERO, 0)

MoveTo(c, p) == Append(c, Move(p))

LineTo(c, p) == Append(c, Line(p))

QuadTo(c, p1, p2) == Append(c, Quad(p1, p2))

ConicTo(c, p1, p2, weight) == Append(c, Conic(p1, p2, weight))

CubicTo(c, p1, p2, p3) == Append(c, Cubic(p1, p2, p3))

CloseTo(c) == Append(c, Close)

\* The point segment i of c starts at: the end point of the one before it.
StartOf(c, i) == IF i = 1 THEN ZERO ELSE c[i - 1].p

\* Segment i of c traversed from its end to its start.
Reversed(c, i) ==
    LET s == c[i]
    IN  CASE s.k = "Line" -> Line(StartOf(c, i))
          [] s.k = "Quad" -> Quad(s.c1, StartOf(c, i))
          [] s.k = "Conic" -> Conic(s.c1, StartOf(c, i), s.w)
          [] s.k = "Cubic" -> Cubic(s.c2, s.c1, StartOf(c, i))
          [] OTHER -> s

IsDrawn(s) == s.k \notin {"Move", "Close"}

\* append_reverse: the drawing segments of other, last first, each reversed.
AppendReverse(c, other) ==
    c \o SelectSeq([j \in 1..Len(other) |-> Reversed(other, Len(other) + 1 - j)],
                   IsDrawn)

(***************************************************************************)
(* The curve geometry at the end of stroke.rs.                             *)
(***************************************************************************)
MAX_ERROR == Unit

\* A depth limit one level deeper.
MAX_DEPTH_deeper == 6 + 1

MAX_DEPTH == 6

line_normal(p0, p1) == Normalize(Hat(VSub(p1, p0)))

quad_bezier(p0, p1, p2, t) ==
    LET p01 == Lerp(p0, p1, t)
        p12 == Lerp(p1, p2, t)
    IN  Lerp(p01, p12, t)

quad_bezier_tangent(p0, p1, p2, t) ==
    LET p01 == Lerp(p0, p1, t)
        p12 == Lerp(p1, p2, t)
    IN  VSub(p12, p01)

quad_bezier_normal(p0, p1, p2, t) ==
    Normalize(Hat(quad_bezier_tangent(p0, p1, p2, t)))

cubic_bezier(p0, p1, p2, p3, t) ==
    LET p01 == Lerp(p0, p1, t)
        p12 == Lerp(p1, p2, t)
        p23 == Lerp(p2, p3, t)
        p012 == Lerp(p01, p12, t)
        p123 == Lerp(p12, p23, t)
    IN  Lerp(p012, p123, t)

cubic_bezier_tangent(p0, p1, p2, p3, t) ==
    LET p01 == Lerp(p0, p1, t)
        p12 == Lerp(p1, p2, t)
        p23 == Lerp(p2, p3, t)
        p012 == Lerp(p01, p12, t)
        p123 == Lerp(p12, p23, t)
    IN  VSub(p123, p012)

cubic_bezier_normal(p0, p1, p2, p3, t) ==
    Normalize(Hat(cubic_bezier_tangent(p0, p1, p2, p3, t)))

\* Option<Vector> and Option<(Point, Vector)>
NoneV == [some |-> FALSE, v |-> ZERO]

SomeV(v) == [some |-> TRUE, v |-> v]

NoneF == [some |-> FALSE, p |-> ZERO, n |-> ZERO]

SomeF(p, n) == [some |-> TRUE, p |-> p, n |-> n]

\* A segment_normal that gives Move and Close a normal as well.
segment_normal_of_any(segment, p0, t) ==
    CASE segment.k = "Line" -> SomeV(line_normal(p0, segment.p))
      [] segment.k = "Quad" -> SomeV(quad_bezier_normal(p0, segment.c1, segment.p, t))
      [] segment.k = "Cubic" ->
            SomeV(cubic_bezier_normal(p0, segment.c1, segment.c2, segment.p, t))
      [] OTHER -> SomeV(ZERO)

segment_normal(segment, p0, t) ==
    CASE segment.k = "Line" -> SomeV(line_normal(p0, segment.p))
      [] segment.k = "Quad" -> SomeV(quad_bezier_normal(p0, segment.c1, segment.p, t))
      [] segment.k = "Cubic" ->
            SomeV(cubic_bezier_normal(p0, segment.c1, segment.c2, segment.p, t))
      [] OTHER -> NoneV

(***************************************************************************)
(* The inputs: the curves stroke_impl is run on and the Stroke arguments.  *)
(***************************************************************************)
\* The longest input, in segments.
MaxSegments == 4

P(x, y) == Vec(x * Unit, y * Unit)

\* The segments an input is made of.
Alphabet ==
    {Move(P(0, 0)),
     Line(P(10, 0)), Line(P(10, 10)),
     Quad(P(10, 0), P(10, 10)),
     Cubic(P(10, 0), P(10, 10), P(0, 0)),
     Close}

Strokes ==
    {[width |-> 2 * Unit, miter |-> 4 * Unit, cap |-> "Butt", join |-> "Miter"],
     [width |-> 2 * Unit, miter |-> Unit, cap |-> "Round", join |-> "Miter"],
     [width |-> 4 * Unit, miter |-> 4 * Unit, cap |-> "Square", join |-> "Round"],
     [width |-> 2 * Unit, miter |-> 4 * Unit, cap |-> "Butt", join |-> "Bevel"]}

\* The points a segment of an input can start at, and the offsets of a stroke.
StartPoints == {ZERO} \cup {s.p : s \in {a \in Alphabet : a.k # "Close"}}

Offsets == UNION {{FDiv(s.width, 2 * Unit), -FDiv(s.width, 2 * Unit)} : s \in Strokes}

(***************************************************************************)
(* The offset approximator.  Each operator returns self with the segments  *)
(* the method appends.                                                     *)
(***************************************************************************)
\* An offset of a line that ends on the far side of the path.
offset_line_across(self, p0, p1, offset) ==
    LET normal == line_normal(p0, p1)
    IN  LineTo(self, VSub(p1, VMul(normal, offset)))

offset_line(self, p0, p1, offset) ==
    LET normal == line_normal(p0, p1)
    IN  LineTo(self, VAdd(p1, VMul(normal, offset)))

\* [p01, center, p12]
divide_quad_bezier(p0, p1, p2, t) ==
    LET p01 == Lerp(p0, p1, t)
        p12 == Lerp(p1, p2, t)
    IN  <<p01, Lerp(p01, p12, t), p12>>

\* The error the quadratic candidate is accepted or refused by.
quad_error(p0, p1, p2, offset) ==
    LET n0 == quad_bezier_normal(p0, p1, p2, T0)
        n1 == quad_bezier_normal(p0, p1, p2, THalf)
        n2 == quad_bezier_normal(p0, p1, p2, T1)
        op0 == VAdd(p0, VMul(n0, offset))
        op1 == VAdd(p1, VMul(n1, offset))
        op2 == VAdd(p2, VMul(n2, offset))
        real_center == VAdd(quad_bezier(p0, p1, p2, THalf), VMul(n0, offset))
        center == quad_bezier(op0, op1, op2, THalf)
    IN  Length(VSub(center, real_center))

\* The segments offset_quad_bezier appends, first half before second half.
RECURSIVE quad_leaves(_, _, _, _, _)
quad_leaves(p0, p1, p2, offset, depth) ==
    LET n1 == quad_bezier_normal(p0, p1, p2, THalf)
        n2 == quad_bezier_normal(p0, p1, p2, T1)
        op1 == VAdd(p1, VMul(n1, offset))
        op2 == VAdd(p2, VMul(n2, offset))
    IN  IF quad_error(p0, p1, p2, offset) < MAX_ERROR \/ depth >= MAX_DEPTH
        THEN <<Quad(op1, op2)>>
        ELSE LET d == divide_quad_bezier(p0, p1, p2, THalf)
             IN  quad_leaves(p0, d[1], d[2], offset, depth + 1)
                 \o quad_leaves(d[2], d[3], p2, offset, depth + 1)

\* The calls of offset_quad_bezier that append a segment, in the order they
\* append: the piece of the source each is made for (from .. to), its depth
\* and the error it was accepted with.
RECURSIVE quad_calls(_, _, _, _, _)
quad_calls(p0, p1, p2, offset, depth) ==
    LET error == quad_error(p0, p1, p2, offset)
    IN  IF error < MAX_ERROR \/ depth >= MAX_DEPTH
        THEN <<[from |-> p0, to |-> p2, depth |-> depth, error |-> error]>>
        ELSE LET d == divide_quad_bezier(p0, p1, p2, THalf)
             IN  quad_calls(p0, d[1], d[2], offset, depth + 1)
                 \o quad_calls(d[2], d[3], p2, offset, depth + 1)

offset_quad_bezier(self, p0, p1, p2, offset, depth) ==
    self \o quad_leaves(p0, p1, p2, offset, depth)

\* [p01, p012, center, p123, p23]
divide_cubic_bezier(p0, p1, p2, p3, t) ==
    LET p01 == Lerp(p0, p1, t)
        p12 == Lerp(p1, p2, t)
        p23 == Lerp(p2, p3, t)
        p012 == Lerp(p01, p12, t)
        p123 == Lerp(p12, p23, t)
    IN  <<p01, p012, Lerp(p012, p123, t), p123, p23>>

\* The error the cubic candidate is accepted or refused by.
cubic_error(p0, p1, p2, p3, offset) ==
    LET n0 == cubic_bezier_normal(p0, p1, p2, p3, T0)
        n1 == cubic_bezier_normal(p0, p1, p2, p3, TThird)
        n2 == cubic_bezier_normal(p0, p1, p2, p3, TTwoThirds)
        n3 == cubic_bezier_normal(p0, p1, p2, p3, T1)
        op0 == VAdd(p0, VMul(n0, offset))
        op1 == VAdd(p1, VMul(n1, offset))
        op2 == VAdd(p2, VMul(n2, offset))
        op3 == VAdd(p3, VMul(n3, offset))
        real_center == VAdd(cubic_bezier(p0, p1, p2, p3, TThird), VMul(n0, offset))
        center == cubic_bezier(op0, op1, op2, op3, TThird)
    IN  Length(VSub(center, real_center))

\* A threshold that takes the distance of the offset, not its sign.
cubic_threshold_of_distance(offset) == FMul(Abs(offset), MAX_ERROR)

\* offset * Self::MAX_ERROR, what the error of a cubic candidate is compared to
cubic_threshold(offset) == FMul(offset, MAX_ERROR)

\* The segments offset_cubic_bezier appends, first part before second part.
RECURSIVE cubic_leaves(_, _, _, _, _, _)
cubic_leaves(p0, p1, p2, p3, offset, depth) ==
    LET n1 == cubic_bezier_normal(p0, p1, p2, p3, TThird)
        n2 == cubic_bezier_normal(p0, p1, p2, p3, TTwoThirds)
        n3 == cubic_bezier_normal(p0, p1, p2, p3, T1)
        op1 == VAdd(p1, VMul(n1, offset))
        op2 == VAdd(p2, VMul(n2, offset))
        op3 == VAdd(p3, VMul(n3, offset))
    IN  IF cubic_error(p0, p1, p2, p3, offset) < cubic_threshold(offset)
           \/ depth >= MAX_DEPTH
        THEN <<Cubic(op1, op2, op3)>>
        ELSE LET d == divide_cubic_bezier(p0, p1, p2, p3, TThird)
             IN  cubic_leaves(p0, d[1], d[2], d[3], offset, depth + 1)
                 \o cubic_leaves(d[3], d[4], d[5], p3, offset, depth + 1)

\* The calls of offset_cubic_bezier that append a segment, as quad_calls.
RECURSIVE cubic_calls(_, _, _, _, _, _)
cubic_calls(p0, p1, p2, p3, offset, depth) ==
    LET error == cubic_error(p0, p1, p2, p3, offset)
    IN  IF error < cubic_threshold(offset) \/ depth >= MAX_DEPTH
        THEN <<[from |-> p0, to |-> p3, depth |-> depth, error |-> error]>>
        ELSE LET d == divide_cubic_bezier(p0, p1, p2, p3, TThird)
             IN  cubic_calls(p0, d[1], d[2], d[3], offset, depth + 1)
                 \o cubic_calls(d[3], d[4], d[5], p3, offset, depth + 1)

\* cubic_leaves at depth 0 for the cubics of the inputs, computed once and
\* kept as a table (@@ enumerates the function).
CubicCalls ==
    [p0 : StartPoints, s : {a \in Alphabet : a.k = "Cubic"}, offset : Offsets]

cubic_offsets ==
    [c \in CubicCalls |-> cubic_leaves(c.p0, c.s.c1, c.s.c2, c.s.p, c.offset, 0)]
    @@ <<>>

\* cubic_calls at depth 0 for the cubics of the inputs, computed once.
cubic_call_logs ==
    [c \in CubicCalls |-> cubic_calls(c.p0, c.s.c1, c.s.c2, c.s.p, c.offset, 0)]
    @@ <<>>

offset_cubic_bezier(self, p0, p1, p2, p3, offset, depth) ==
    LET c == [p0 |-> p0, s |-> Cubic(p1, p2, p3), offset |-> offset]
    IN  self \o (IF depth = 0 /\ c \in DOMAIN cubic_offsets
                 THEN cubic_offsets[c]
                 ELSE cubic_leaves(p0, p1, p2, p3, offset, depth))

(***************************************************************************)
(* Caps and joins.  A stroke is [width, miter, cap, join].                 *)
(***************************************************************************)
\* r = stroke.width / 2.0
HalfWidth(stroke) == FDiv(stroke.width, 2 * Unit)

\* 0.55
CapHandle == (55 * Unit) \div 100

stroke_line_cap(self, p, n, t, stroke) ==
    LET r == HalfWidth(stroke)
        p0 == VSub(p, VMul(n, r))
        p1 == VAdd(p, VMul(n, r))
    IN  CASE stroke.cap = "Butt" -> LineTo(self, VAdd(p, VMul(n, r)))
          [] stroke.cap = "Round" ->
                LET hat == VMul(VMul(t, r), CapHandle)
                    nat == VMul(VMul(n, r), CapHandle)
                    c == VAdd(p, VMul(t, r))
                IN  CubicTo(CubicTo(self, VAdd(p0, hat), VSub(c, nat), c),
                            VAdd(c, nat), VAdd(p1, hat), p1)
          [] stroke.cap = "Square" ->
                LET hat == VMul(t, r)
                IN  LineTo(LineTo(LineTo(self, VAdd(p0, hat)), VAdd(p1, hat)), p1)

\* A stroke_bevel that ends on the other side of the pivot.
stroke_bevel_mirrored(self, pivot, n1, r) ==
    LET p1 == VSub(pivot, VMul(n1, r))
    IN  LineTo(self, p1)

stroke_bevel(self, pivot, n1, r) ==
    LET p1 == VAdd(pivot, VMul(n1, r))
    IN  LineTo(self, p1)

\* 1.0 / amount >= limit; 1.0 / 0.0 is the positive infinity
MiterExceeds(amount, limit) ==
    IF amount = 0 THEN TRUE ELSE FDiv(Unit, amount) >= limit

\* A stroke_miter that ignores the limit: the apex whenever there is one.
stroke_miter_unlimited(self, pivot, n0, n1, r, limit) ==
    LET miter == Normalize(VAdd(n0, n1))
        amount == Dot(miter, n1)
    IN  IF amount = 0
        THEN stroke_bevel(self, pivot, n1, r)
        ELSE LET scaled == VDiv(VMul(miter, r), amount)
                 p1 == VAdd(pivot, VMul(n1, r))
                 m == VAdd(pivot, scaled)
             IN  LineTo(LineTo(self, m), p1)

stroke_miter(self, pivot, n0, n1, r, limit) ==
    LET miter == Normalize(VAdd(n0, n1))
        amount == Dot(miter, n1)
    IN  IF MiterExceeds(amount, limit)
        THEN stroke_bevel(self, pivot, n1, r)
        ELSE LET scaled == VDiv(VMul(miter, r), amount)
                 p1 == VAdd(pivot, VMul(n1, r))
                 m == VAdd(pivot, scaled)
             IN  LineTo(LineTo(self, m), p1)

\* A stroke_round whose control points are not pushed out by 1 / cos.
stroke_round_on_circle(self, pivot, n0, n1, r) ==
    LET p1 == VAdd(pivot, VMul(n1, r))
        nmid == Normalize(VAdd(n0, n1))
        mid == VAdd(pivot, VMul(nmid, r))
        dot == Dot(n0, nmid)
        cos_theta_over_2 == FSqrt(FDiv(Unit + dot, 2 * Unit))
        c0 == VAdd(pivot, VMul(Normalize(VAdd(n0, nmid)), r))
        c1 == VAdd(pivot, VMul(Normalize(VAdd(n1, nmid)), r))
    IN  ConicTo(ConicTo(self, c0, mid, cos_theta_over_2), c1, p1, cos_theta_over_2)

stroke_round(self, pivot, n0, n1, r) ==
    LET p1 == VAdd(pivot, VMul(n1, r))
        nmid == Normalize(VAdd(n0, n1))
        mid == VAdd(pivot, VMul(nmid, r))
        dot == Dot(n0, nmid)
        cos_theta_over_2 == FSqrt(FDiv(Unit + dot, 2 * Unit))
        inv_cos_theta_over_2 == FDiv(Unit, cos_theta_over_2)
        c0 == VAdd(pivot, VMul(VMul(Normalize(VAdd(n0, nmid)), r), inv_cos_theta_over_2))
        c1 == VAdd(pivot, VMul(VMul(Normalize(VAdd(n1, nmid)), r), inv_cos_theta_over_2))
    IN  ConicTo(ConicTo(self, c0, mid, cos_theta_over_2), c1, p1, cos_theta_over_2)

\* A turn-direction test that looks at the corner only, not at the side.
Concave_of_either_side(n0, n1, r) == Cross(n0, n1) > 0

\* n0.cross(n1) * r > 0.0, decided by the signs of the two factors
Concave(n0, n1, r) == Cross(n0, n1) * r > 0

\* A stroke_join without the turn-direction test: the join style on both sides.
stroke_join_on_both_sides(self, pivot, n0, n1, r, join, miter_limit) ==
    CASE join = "Miter" -> stroke_miter(self, pivot, n0, n1, r, miter_limit)
      [] join = "Round" -> stroke_round(self, pivot, n0, n1, r)
      [] join = "Bevel" -> stroke_bevel(self, pivot, n1, r)

stroke_join(self, pivot, n0, n1, r, join, miter_limit) ==
    IF Concave(n0, n1, r)
    THEN LineTo(self, VAdd(pivot, VMul(n1, r)))
    ELSE CASE join = "Miter" -> stroke_miter(self, pivot, n0, n1, r, miter_limit)
           [] join = "Round" -> stroke_round(self, pivot, n0, n1, r)
           [] join = "Bevel" -> stroke_bevel(self, pivot, n1, r)

(***************************************************************************)
(* Curve::stroke_impl.  A walk w holds the locals of the loop: p0, n0,     *)
(* first, outside, the output curve self, whether an unwrap has panicked,  *)
(* and caps, the log of the stroke_line_cap calls made (one [p, n, t] per  *)
(* call).  The end of the iterator is the segment End.                     *)
(***************************************************************************)
End == Seg("End", ZERO, ZERO, ZERO, 0)

Walk(self) ==
    [p0 |-> ZERO, n0 |-> NoneV, first |-> NoneF, self |-> self, outside |-> <<>>,
     panicked |-> FALSE, caps |-> <<>>]

\* The start of a drawing segment that records no anchor.
start_segment_without_anchor(w, n1, stroke) ==
    LET r == HalfWidth(stroke)
    IN  IF w.n0.some
        THEN [w EXCEPT
                !.self = stroke_join(w.self, w.p0, w.n0.v, n1, r,
                                     stroke.join, stroke.miter),
                !.outside = stroke_join(w.outside, w.p0, w.n0.v, n1, -r,
                                        stroke.join, stroke.miter)]
        ELSE [w EXCEPT
                !.self = MoveTo(w.self, VAdd(w.p0, VMul(n1, r))),
                !.outside = MoveTo(w.outside, VSub(w.p0, VMul(n1, r)))]

\* match n0 { Some(n0) => the two joins, None => the two move_to and first }
start_segment(w, n1, stroke) ==
    LET r == HalfWidth(stroke)
    IN  IF w.n0.some
        THEN [w EXCEPT
                !.self = stroke_join(w.self, w.p0, w.n0.v, n1, r,
                                     stroke.join, stroke.miter),
                !.outside = stroke_join(w.outside, w.p0, w.n0.v, n1, -r,
                                        stroke.join, stroke.miter)]
        ELSE [w EXCEPT
                !.self = MoveTo(w.self, VAdd(w.p0, VMul(n1, r))),
                !.outside = MoveTo(w.outside, VSub(w.p0, VMul(n1, r))),
                !.first = SomeF(w.p0, n1)]

\* A Move arm that keeps the anchor of the subpath before.
arm_move_keeping_first(w, p1) == [w EXCEPT !.p0 = p1, !.n0 = NoneV]

arm_move(w, p1) == [w EXCEPT !.p0 = p1, !.n0 = NoneV, !.first = NoneF]

arm_line(w, p1, stroke) ==
    LET r == HalfWidth(stroke)
        n1 == line_normal(w.p0, p1)
        s == start_segment(w, n1, stroke)
    IN  [s EXCEPT !.self = offset_line(s.self, w.p0, p1, r),
                  !.outside = offset_line(s.outside, w.p0, p1, -r),
                  !.n0 = SomeV(n1),
                  !.p0 = p1]

arm_quad(w, p1, p2, stroke) ==
    LET r == HalfWidth(stroke)
        n1 == quad_bezier_normal(w.p0, p1, p2, T0)
        s == start_segment(w, n1, stroke)
    IN  [s EXCEPT !.self = offset_quad_bezier(s.self, w.p0, p1, p2, r, 0),
                  !.outside = offset_quad_bezier(s.outside, w.p0, p1, p2, -r, 0),
                  !.n0 = SomeV(quad_bezier_normal(w.p0, p1, p2, T1)),
                  !.p0 = p2]

arm_cubic(w, p1, p2, p3, stroke) ==
    LET r == HalfWidth(stroke)
        n1 == cubic_bezier_normal(w.p0, p1, p2, p3, T0)
        s == start_segment(w, n1, stroke)
    IN  [s EXCEPT !.self = offset_cubic_bezier(s.self, w.p0, p1, p2, p3, r, 0),
                  !.outside = offset_cubic_bezier(s.outside, w.p0, p1, p2, p3, -r, 0),
                  !.n0 = SomeV(cubic_bezier_normal(w.p0, p1, p2, p3, T1)),
                  !.p0 = p3]

\* A Close arm that empties outside once it has been appended.
arm_close_clearing(w, stroke) ==
    LET r == HalfWidth(stroke)
        closed == CloseTo(w.self)
    IN  IF ~w.n0.some
        THEN [w EXCEPT !.self = closed, !.panicked = TRUE]
        ELSE LET pf == IF w.first.some THEN w.first.p ELSE w.p0
                 nf == IF w.first.some THEN w.first.n ELSE w.n0.v
             IN  [w EXCEPT !.self =
                    CloseTo(AppendReverse(MoveTo(closed, VSub(pf, VMul(nf, r))),
                                          w.outside)),
                           !.outside = <<>>]

\* self.close() is done before n0.unwrap(), an argument of unwrap_or, panics
arm_close(w, stroke) ==
    LET r == HalfWidth(stroke)
        closed == CloseTo(w.self)
    IN  IF ~w.n0.some
        THEN [w EXCEPT !.self = closed, !.panicked = TRUE]
        ELSE LET pf == IF w.first.some THEN w.first.p ELSE w.p0
                 nf == IF w.first.some THEN w.first.n ELSE w.n0.v
             IN  [w EXCEPT !.self =
                    CloseTo(AppendReverse(MoveTo(closed, VSub(pf, VMul(nf, r))),
                                          w.outside))]

arm(w, segment, stroke) ==
    CASE segment.k = "Move" -> arm_move(w, segment.p)
      [] segment.k = "Line" -> arm_line(w, segment.p, stroke)
      [] segment.k = "Quad" -> arm_quad(w, segment.c1, segment.p, stroke)
      [] segment.k = "Cubic" -> arm_cubic(w, segment.c1, segment.c2, segment.p, stroke)
      [] segment.k = "Close" -> arm_close(w, stroke)

CapCall(p, n, t) == [p |-> p, n |-> n, t |-> t]

\* if matches!(segments.peek(), None | Some(Move(_))) { ... }: w is the walk
\* after the match, so w.p0 is already the end point of segment.
end_of_subpath(w, segment, peek, stroke) ==
    LET sn == segment_normal(segment, w.p0, T1)
    IN  IF peek.k \in {"End", "Move"} /\ sn.some
        THEN LET n == sn.v
                 pf == IF w.first.some THEN w.first.p ELSE w.p0
                 nf == IF w.first.some THEN w.first.n ELSE n
                 c1 == stroke_line_cap(w.self, w.p0, VNeg(n), VNeg(Hat(n)), stroke)
                 c2 == AppendReverse(c1, w.outside)
                 c3 == stroke_line_cap(c2, pf, nf, Hat(nf), stroke)
             IN  [w EXCEPT !.self = CloseTo(c3),
                           !.caps = @ \o <<CapCall(w.p0, VNeg(n), VNeg(Hat(n))),
                                           CapCall(pf, nf, Hat(nf))>>]
        ELSE w

\* The rest of the loop body once the match has left the walk a.
after_match(a, segment, peek, stroke) ==
    IF a.panicked THEN a ELSE end_of_subpath(a, segment, peek, stroke)

\* One pass through the loop body.
iteration(w, segment, peek, stroke) ==
    after_match(arm(w, segment, stroke), segment, peek, stroke)

PeekAt(curve, i) == IF i + 1 <= Len(curve) THEN curve[i + 1] ELSE End

RECURSIVE walk_from(_, _, _, _)
walk_from(w, curve, i, stroke) ==
    IF i > Len(curve) \/ w.panicked THEN w
    ELSE walk_from(iteration(w, curve[i], PeekAt(curve, i), stroke), curve, i + 1,
                   stroke)

\* The walk stroke_impl ends in when self is the output and curve the input.
stroke_impl(self, curve, stroke) == walk_from(Walk(self), curve, 1, stroke)

(***************************************************************************)
(* The state machine: one run of stroke_impl on an empty output curve.     *)
(* The input curve is read through a peekable iterator, so it is revealed  *)
(* one segment ahead: curve holds the segments next() has returned and     *)
(* segments the one peek() would return (End after the last).              *)
(***************************************************************************)
VARIABLES
    curve,      \* the segments of the input consumed so far
    segments,   \* the iterator: the next segment of the input, or End
    stroke,     \* the Stroke argument
    w,          \* the locals of stroke_impl and its output curve
    pc,         \* "loop", "done" (the loop has ended) or "panic"
    ev,         \* what the last pass through the loop did
    canvas,     \* the Canvas values being drawn on: the canvas, then open layers
    hit,        \* the last view_at call on the canvas as it is now
    hasher,     \* the Stroke values being hashed and what each Hasher was fed
    ui,         \* a Ui: its fields, the calls in progress and what they did
    clickable,  \* a Clickable view: its state and what its last event did
    stack       \* a Stack view being measured: its children and its state

vars == <<curve, segments, stroke, w, pc, ev, canvas, hit, hasher, ui, clickable, stack>>

strokerVars == <<curve, segments, stroke, w, pc, ev>>

\* What a step of the stroker, of a canvas, of a hash, of a Ui, of a Clickable,
\* of a Stack leaves alone.
notStroker == <<canvas, hit, hasher, ui, clickable, stack>>

notCanvas == <<strokerVars, hasher, ui, clickable, stack>>

notHash == <<strokerVars, canvas, hit, ui, clickable, stack>>

notUi == <<strokerVars, canvas, hit, hasher, clickable, stack>>

notClickable == <<strokerVars, canvas, hit, hasher, ui, stack>>

notStack == <<strokerVars, canvas, hit, hasher, ui, clickable>>

\* Option<ViewId>
NoView == [some |-> FALSE, id |-> 0]

SomeView(id) == [some |-> TRUE, id |-> id]

\* Affine, here a translation; Affine::IDENTITY
Affine(t) == [t |-> t]

IDENTITY == Affine(ZERO)

\* Option<Mask>
NoMask == [some |-> FALSE, curve |-> <<>>, fill |-> "NonZero"]

SomeMask(contours, fill) == [some |-> TRUE, curve |-> contours, fill |-> fill]

\* A Canvas being drawn on: Canvas::new() for the canvas itself, and for a
\* layer whose closure is running the arguments of Canvas::layer as well.
Frame(transform, mask, view) ==
    [primitives |-> <<>>, transform |-> transform, mask |-> mask, view |-> view]

NoHit == [asked |-> FALSE, point |-> ZERO, view |-> NoView]

\* No canvas is being drawn on.
CanvasIdle == canvas = <<>> /\ hit = NoHit

\* No Stroke is being hashed.
HashIdle == hasher = <<>>

\* There is no Ui and no view.
ViewsIdle == ui = <<>> /\ clickable = <<>> /\ stack = <<>>

NoEvent ==
    [seg |-> End, peek |-> End, p0 |-> ZERO, n0 |-> NoneV, first |-> NoneF,
     selfLen |-> 0, outsideLen |-> 0, joinLen |-> 0, joinOutsideLen |-> 0,
     armLen |-> 0, capsLen |-> 0]

Init ==
    /\ curve = <<>>
    /\ segments \in Alphabet \cup {End}
    /\ stroke \in Strokes
    /\ w = Walk(<<>>)
    /\ pc = "loop"
    /\ ev = NoEvent
    /\ CanvasIdle
    /\ HashIdle
    /\ ViewsIdle

\* let Some(segment) = segments.next(), then the loop body for a segment of
\* kind k: j is the walk after the join or the move_to that starts a drawing
\* segment (the walk itself for Move and Close), a the walk after the match
\* and next what peek() sees.
Iterate(k, j, a) ==
    /\ pc = "loop"
    /\ segments.k = k
    /\ \E next \in Alphabet \cup {End} :
          /\ Len(curve) + 2 > MaxSegments => next = End
          /\ LET b == after_match(a, segments, next, stroke)
             IN  /\ w' = b
                 /\ pc' = IF b.panicked THEN "panic" ELSE "loop"
          /\ ev' = [seg |-> segments, peek |-> next, p0 |-> w.p0,
                    n0 |-> w.n0, first |-> w.first,
                    selfLen |-> Len(w.self),
                    outsideLen |-> Len(w.outside),
                    joinLen |-> Len(j.self),
                    joinOutsideLen |-> Len(j.outside),
                    armLen |-> Len(a.self), capsLen |-> Len(w.caps)]
          /\ segments' = next
    /\ curve' = Append(curve, segments)
    /\ UNCHANGED <<stroke, notStroker>>

StrokeMove == Iterate("Move", w, arm_move(w, segments.p))

StrokeLine ==
    Iterate("Line", start_segment(w, line_normal(w.p0, segments.p), stroke),
            arm_line(w, segments.p, stroke))

StrokeQuad ==
    Iterate("Quad",
            start_segment(w, quad_bezier_normal(w.p0, segments.c1, segments.p, T0),
                          stroke),
            arm_quad(w, segments.c1, segments.p, stroke))

StrokeCubic ==
    Iterate("Cubic",
            start_segment(w, cubic_bezier_normal(w.p0, segments.c1, segments.c2,
                                                 segments.p, T0), stroke),
            arm_cubic(w, segments.c1, segments.c2, segments.p, stroke))

StrokeClose == Iterate("Close", w, arm_close(w, stroke))

\* let Some(segment) = segments.next() else { break }
Break ==
    /\ pc = "loop"
    /\ segments = End
    /\ pc' = "done"
    /\ UNCHANGED <<curve, segments, stroke, w, ev, notStroker>>

Next ==
    \/ StrokeMove
    \/ StrokeLine
    \/ StrokeQuad
    \/ StrokeCubic
    \/ StrokeClose
    \/ Break

Spec == Init /\ [][Next]_vars

(***************************************************************************)
(* Canvas (canvas/canvas.rs).  Rect, Affine, Image and Curve::contains are *)
(* not among the source files and are modelled from the specification's    *)
(* sections 3 and 6: a Rect contains the points between its corners, an    *)
(* Affine is a translation, and the curve of a fill, a stroke or a mask is *)
(* given by its contours, each the outline of a Rect, so that the winding  *)
(* number of a point is the number of contours around it.  Paints do not   *)
(* take part in view_at and are left out.                                  *)
(***************************************************************************)
Rect(min, max) == [min |-> min, max |-> max]

RectContains(rect, point) ==
    /\ rect.min.x <= point.x /\ point.x <= rect.max.x
    /\ rect.min.y <= point.y /\ point.y <= rect.max.y

\* Rect::min_size
RectMinSize(min, size) == Rect(min, VAdd(min, size))

\* transform.inverse() and transform * point
Inverse(transform) == Affine(VNeg(transform.t))

Apply(transform, point) == VAdd(point, transform.t)

\* curve.contains(point, fill)
CurveContains(contours, point, fill) ==
    LET winding == Cardinality({i \in 1..Len(contours) :
                                  RectContains(contours[i], point)})
    IN  IF fill = "NonZero" THEN winding # 0 ELSE winding % 2 = 1

\* The outline of contours stroked with the given width contains point
\* (under NonZero): point is within width / 2 of the border of a contour.
OutlineContains(contours, width, point) ==
    LET r == FDiv(width, 2 * Unit)
        grown(c) == Rect(VSub(c.min, Vec(r, r)), VAdd(c.max, Vec(r, r)))
        inner(c) ==
            /\ c.min.x + r < point.x /\ point.x < c.max.x - r
            /\ c.min.y + r < point.y /\ point.y < c.max.y - r
    IN  \E i \in 1..Len(contours) :
            RectContains(grown(contours[i]), point) /\ ~inner(contours[i])

\* Primitive: every primitive is a record of the same shape; the fields a
\* kind does not use keep the values of Blank.
Blank ==
    [kind |-> "None", rect |-> Rect(ZERO, ZERO), curve |-> <<>>, fill |-> "NonZero",
     width |-> 0, point |-> ZERO, image |-> ZERO, primitives |-> <<>>,
     transform |-> IDENTITY, mask |-> NoMask, view |-> NoView]

PrimitiveRect(rect) == [Blank EXCEPT !.kind = "Rect", !.rect = rect]

PrimitiveFill(contours, fill) ==
    [Blank EXCEPT !.kind = "Fill", !.curve = contours, !.fill = fill]

PrimitiveStroke(contours, width) ==
    [Blank EXCEPT !.kind = "Stroke", !.curve = contours, !.width = width]

\* image is the size of the image
PrimitiveImage(point, image) ==
    [Blank EXCEPT !.kind = "Image", !.point = point, !.image = image]

PrimitiveLayer(primitives, transform, mask, view) ==
    [Blank EXCEPT !.kind = "Layer", !.primitives = primitives,
                  !.transform = transform, !.mask = mask, !.view = view]

\* fn recurse of Canvas::view_at: primitives.iter().rev() has reached the
\* primitive of index i (0: the iterator is exhausted).
RECURSIVE recurse(_, _, _, _)
recurse(primitives, view, point, i) ==
    IF i = 0 THEN NoView
    ELSE LET primitive == primitives[i]
             continue == recurse(primitives, view, point, i - 1)
         IN  CASE primitive.kind = "Rect" ->
                    IF RectContains(primitive.rect, point) THEN view ELSE continue
               [] primitive.kind = "Fill" ->
                    IF CurveContains(primitive.curve, point, primitive.fill)
                    THEN view ELSE continue
               [] primitive.kind = "Stroke" -> continue
               [] primitive.kind = "Image" ->
                    LET rect == RectMinSize(primitive.point, primitive.image)
                    IN  IF RectContains(rect, point) THEN view ELSE continue
               [] primitive.kind = "Layer" ->
                    LET inner == Apply(Inverse(primitive.transform), point)
                        masked ==
                            /\ primitive.mask.some
                            /\ ~CurveContains(primitive.mask.curve, inner,
                                              primitive.mask.fill)
                        found == recurse(primitive.primitives, primitive.view, inner,
                                         Len(primitive.primitives))
                    IN  IF masked THEN continue
                        ELSE IF found.some THEN found ELSE continue

view_at(primitives, point) == recurse(primitives, NoView, point, Len(primitives))

\* The most primitives drawn on a canvas, layers and their contents counted.
MaxPrimitives == 3

\* What is drawn: one square, a curve that winds twice around it, a layer
\* moved two squares to the right, two views.
Square == Rect(P(0, 0), P(1, 1))

Twice == <<Square, Square>>

Shifted == Affine(P(2, 0))

Views == {SomeView(1), SomeView(2)}

CanvasPoints == {P(0, 0), P(2, 0)}

\* The primitives of primitives, the contents of layers counted.
RECURSIVE Size(_)
Size(primitives) ==
    IF primitives = <<>> THEN 0
    ELSE 1 + Size(primitives[1].primitives) + Size(Tail(primitives))

\* The primitives drawn so far, a layer whose closure is running counted too.
RECURSIVE Drawn(_)
Drawn(frames) ==
    IF frames = <<>> THEN 0
    ELSE Size(frames[1].primitives) + Drawn(Tail(frames))
         + (IF Len(frames) > 1 THEN 1 ELSE 0)

\* Default for Stroke
DefaultStroke == [width |-> Unit, miter |-> 4 * Unit, cap |-> "Butt", join |-> "Miter"]

\* No curve is being stroked.
StrokerIdle ==
    /\ curve = <<>>
    /\ segments = End
    /\ stroke = DefaultStroke
    /\ w = Walk(<<>>)
    /\ pc = "idle"
    /\ ev = NoEvent

\* Canvas::new()
InitCanvas ==
    /\ canvas = <<Frame(IDENTITY, NoMask, NoView)>>
    /\ hit = NoHit
    /\ StrokerIdle
    /\ HashIdle
    /\ ViewsIdle

\* self.primitives.push(primitive), on the canvas the running closure draws on
Pushed(primitive) ==
    [canvas EXCEPT ![Len(canvas)].primitives = Append(@, primitive)]

\* Canvas::clear
CanvasClear ==
    /\ canvas[Len(canvas)].primitives # <<>>
    /\ canvas' = [canvas EXCEPT ![Len(canvas)].primitives = <<>>]
    /\ hit' = NoHit
    /\ UNCHANGED notCanvas

\* Canvas::rect
CanvasRect ==
    /\ Drawn(canvas) < MaxPrimitives
    /\ canvas' = Pushed(PrimitiveRect(Square))
    /\ hit' = NoHit
    /\ UNCHANGED notCanvas

\* Canvas::fill
CanvasFill ==
    /\ Drawn(canvas) < MaxPrimitives
    /\ \E fill \in {"NonZero", "EvenOdd"} :
          canvas' = Pushed(PrimitiveFill(Twice, fill))
    /\ hit' = NoHit
    /\ UNCHANGED notCanvas

\* Canvas::stroke
CanvasStroke ==
    /\ Drawn(canvas) < MaxPrimitives
    /\ canvas' = Pushed(PrimitiveStroke(<<Square>>, 2 * Unit))
    /\ hit' = NoHit
    /\ UNCHANGED notCanvas

\* Canvas::image
CanvasImage ==
    /\ Drawn(canvas) < MaxPrimitives
    /\ canvas' = Pushed(PrimitiveImage(P(0, 0), P(1, 1)))
    /\ hit' = NoHit
    /\ UNCHANGED notCanvas

\* Canvas::layer up to the call of f: let mut layer = Canvas::new(); f(&mut layer)
CanvasLayer ==
    /\ Drawn(canvas) < MaxPrimitives
    /\ \E view \in Views :
          canvas' = Append(canvas, Frame(Shifted, SomeMask(<<Square>>, "NonZero"),
                                         view))
    /\ hit' = NoHit
    /\ UNCHANGED notCanvas

\* Canvas::transform: self.layer(transform, None, None, f)
CanvasTransform ==
    /\ Drawn(canvas) < MaxPrimitives
    /\ canvas' = Append(canvas, Frame(Shifted, NoMask, NoView))
    /\ hit' = NoHit
    /\ UNCHANGED notCanvas

\* Canvas::mask: self.layer(Affine::IDENTITY, Some(mask), None, f)
CanvasMask ==
    /\ Drawn(canvas) < MaxPrimitives
    /\ canvas' = Append(canvas, Frame(IDENTITY, SomeMask(<<Square>>, "NonZero"),
                                      NoView))
    /\ hit' = NoHit
    /\ UNCHANGED notCanvas

\* Canvas::view: self.layer(Affine::IDENTITY, None, Some(view), f)
CanvasView ==
    /\ Drawn(canvas) < MaxPrimitives
    /\ \E view \in Views : canvas' = Append(canvas, Frame(IDENTITY, NoMask, view))
    /\ hit' = NoHit
    /\ UNCHANGED notCanvas

\* Canvas::layer once f has returned: self.primitives.push(Primitive::Layer)
LayerReturn ==
    /\ Len(canvas) > 1
    /\ LET layer == canvas[Len(canvas)]
           outer == SubSeq(canvas, 1, Len(canvas) - 1)
       IN  canvas' = [outer EXCEPT ![Len(outer)].primitives =
                        Append(@, PrimitiveLayer(layer.primitives, layer.transform,
                                                 layer.mask, layer.view))]
    /\ hit' = NoHit
    /\ UNCHANGED notCanvas

\* Canvas::view_at, on the canvas when no closure is drawing
ViewAt ==
    /\ Len(canvas) = 1
    /\ \E point \in CanvasPoints :
          hit' = [asked |-> TRUE, point |-> point,
                  view |-> view_at(canvas[1].primitives, point)]
    /\ UNCHANGED <<notCanvas, canvas>>

NextCanvas ==
    \/ CanvasClear
    \/ CanvasRect
    \/ CanvasFill
    \/ CanvasStroke
    \/ CanvasImage
    \/ CanvasLayer
    \/ CanvasTransform
    \/ CanvasMask
    \/ CanvasView
    \/ LayerReturn
    \/ ViewAt

SpecCanvas == InitCanvas /\ [][NextCanvas]_vars

(***************************************************************************)
(* impl Hash for Stroke (canvas/stroke.rs).  Here an f32 is its IEEE 754   *)
(* encoding, a sign, a biased exponent and a fraction, since the hash is   *)
(* of the bit pattern; a u32 is the pair of its high and low 16 bits.  A   *)
(* Hasher is represented by the sequence of the values written to it.      *)
(***************************************************************************)
F32(sign, exponent, fraction) ==
    [sign |-> sign, exponent |-> exponent, fraction |-> fraction]

\* 0.0, -0.0, 1.0, 4.0 and a NaN
PlusZero == F32(0, 0, 0)

MinusZero == F32(1, 0, 0)

One == F32(0, 127, 0)

Four == F32(0, 129, 0)

NaN == F32(0, 255, 2 ^ 22)

IsNaN(f) == f.exponent = 255 /\ f.fraction # 0

IsZero(f) == f.exponent = 0 /\ f.fraction = 0

\* f32 == f32
F32Eq(f, g) == ~IsNaN(f) /\ ~IsNaN(g) /\ (f = g \/ (IsZero(f) /\ IsZero(g)))

\* A to_bits that gives both zeros the bits of 0.0, as hashing the value would.
to_bits_of_value(f) ==
    IF IsZero(f) THEN <<0, 0>>
    ELSE <<f.sign * 2 ^ 15 + f.exponent * 2 ^ 7 + f.fraction \div 2 ^ 16,
           f.fraction % 2 ^ 16>>

\* f32::to_bits
to_bits(f) ==
    <<f.sign * 2 ^ 15 + f.exponent * 2 ^ 7 + f.fraction \div 2 ^ 16,
      f.fraction % 2 ^ 16>>

\* The discriminant #[derive(Hash)] writes for LineCap and LineJoin; the
\* values written: a u32 or a discriminant.
CapDiscriminant(cap) ==
    CASE cap = "Butt" -> 0 [] cap = "Round" -> 1 [] cap = "Square" -> 2

JoinDiscriminant(join) ==
    CASE join = "Miter" -> 0 [] join = "Round" -> 1 [] join = "Bevel" -> 2

WriteU32(bits) == [write |-> "u32", value |-> bits]

WriteDiscriminant(d) == [write |-> "isize", value |-> <<0, d>>]

\* #[derive(PartialEq)] for Stroke
StrokeEq(a, b) ==
    /\ F32Eq(a.width, b.width)
    /\ F32Eq(a.miter, b.miter)
    /\ a.cap = b.cap
    /\ a.join = b.join

\* The Stroke values hashed.
HashedStrokes ==
    [width : {PlusZero, MinusZero, One, NaN}, miter : {PlusZero, MinusZero, Four},
     cap : {"Butt", "Round"}, join : {"Miter", "Bevel"}]

\* Two calls of Stroke::hash, each with a fresh Hasher.
InitHash ==
    /\ \E a \in HashedStrokes, b \in HashedStrokes :
          hasher = <<[self |-> a, state |-> <<>>], [self |-> b, state |-> <<>>]>>
    /\ StrokerIdle
    /\ CanvasIdle
    /\ ViewsIdle

\* self.width.to_bits().hash(state)
HashWidth ==
    \E i \in DOMAIN hasher :
        /\ Len(hasher[i].state) = 0
        /\ hasher' = [hasher EXCEPT ![i].state =
                         Append(@, WriteU32(to_bits(hasher[i].self.width)))]
        /\ UNCHANGED notHash

\* self.miter.to_bits().hash(state)
HashMiter ==
    \E i \in DOMAIN hasher :
        /\ Len(hasher[i].state) = 1
        /\ hasher' = [hasher EXCEPT ![i].state =
                         Append(@, WriteU32(to_bits(hasher[i].self.miter)))]
        /\ UNCHANGED notHash

\* self.cap.hash(state)
HashCap ==
    \E i \in DOMAIN hasher :
        /\ Len(hasher[i].state) = 2
        /\ hasher' = [hasher EXCEPT ![i].state =
                         Append(@, WriteDiscriminant(CapDiscriminant(hasher[i].self.cap)))]
        /\ UNCHANGED notHash

\* self.join.hash(state)
HashJoin ==
    \E i \in DOMAIN hasher :
        /\ Len(hasher[i].state) = 3
        /\ hasher' = [hasher EXCEPT ![i].state =
                         Append(@, WriteDiscriminant(JoinDiscriminant(hasher[i].self.join)))]
        /\ UNCHANGED notHash

NextHash ==
    \/ HashWidth
    \/ HashMiter
    \/ HashCap
    \/ HashJoin

SpecHash == InitHash /\ [][NextHash]_vars

(***************************************************************************)
(* What the properties below speak of.                                     *)
(***************************************************************************)
Drawing(s) == s.k \in {"Line", "Quad", "Cubic"}

\* Every segment of the input has been consumed and the loop has ended.
Done == pc = "done"

\* The input starts with a Move.
StartsWithMove == Len(curve) >= 1 /\ curve[1].k = "Move"

\* The last pass through the loop ended an open subpath: it processed a
\* drawing segment and the next segment is a Move or the input is over.
EndsOpenSubpath == Drawing(ev.seg) /\ ev.peek.k \in {"End", "Move"}

\* The first index after i at which a subpath of c starts, Len(c) + 1 if none.
NextMove(c, i) ==
    LET later == {j \in (i + 1)..Len(c) : c[j].k = "Move"}
    IN  IF later = {} THEN Len(c) + 1
        ELSE CHOOSE j \in later : \A l \in later : j <= l

\* What stroke_impl appends for the subpaths of c from index i on when each
\* is stroked alone, concatenated in input order.
RECURSIVE StrokedAlone(_, _, _)
StrokedAlone(c, i, s) ==
    IF i > Len(c) THEN <<>>
    ELSE stroke_impl(<<>>, SubSeq(c, i, NextMove(c, i) - 1), s).self
         \o StrokedAlone(c, NextMove(c, i), s)

\* The number of segments of kind k in c.
Count(c, k) == Cardinality({i \in 1..Len(c) : c[i].k = k})

\* The end points of the segments of c.
Vertices(c) == {c[i].p : i \in {j \in 1..Len(c) : c[j].k # "Close"}}

\* The open subpaths of c with a drawable segment: each ends in a drawing
\* segment that a Move or the end of c follows.
OpenSubpaths(c) ==
    Cardinality({i \in 1..Len(c) :
                    Drawing(c[i]) /\ (i = Len(c) \/ c[i + 1].k = "Move")})

\* The input is one closed subpath: Move, drawing segments, Close.
ClosedSubpath ==
    /\ Len(curve) >= 3
    /\ curve[1].k = "Move"
    /\ curve[Len(curve)].k = "Close"
    /\ \A i \in 2..(Len(curve) - 1) : Drawing(curve[i])

\* The last pass processed a Move that no drawing segment follows.
MoveAlone == ev.seg.k = "Move" /\ ev.peek.k \in {"End", "Move"}

\* The last pass processed a Close that directly follows a Move.
MoveThenClose ==
    /\ ev.seg.k = "Close"
    /\ Len(curve) >= 2
    /\ curve[Len(curve) - 1].k = "Move"

\* The last pass processed a Line from the current point to itself.
ZeroLengthLine == ev.seg.k = "Line" /\ ev.seg.p = ev.p0

\* The last pass joined a drawing segment to the one before it; JoinN1 is the
\* start normal of the segment and MiterAmount the amount of stroke_miter.
JoinStep == Drawing(ev.seg) /\ ev.n0.some

JoinN1 == segment_normal(ev.seg, ev.p0, T0).v

MiterAmount == Dot(Normalize(VAdd(ev.n0.v, JoinN1)), JoinN1)

\* What the join of the last pass appended to the output and to outside.
JoinSelf == SubSeq(w.self, ev.selfLen + 1, ev.joinLen)

JoinOutside == SubSeq(w.outside, ev.outsideLen + 1, ev.joinOutsideLen)

\* The segment a side ended in before the last pass: c is the side after the
\* pass and len its length before.
LastBefore(c, len) == c[len]

\* What the last pass appended for the end cap and for the start cap when the
\* cap appends len segments: the end cap follows the match, the start cap
\* precedes the final Close.
EndCap(len) == SubSeq(w.self, ev.armLen + 1, ev.armLen + len)

StartCap(len) == SubSeq(w.self, Len(w.self) - len, Len(w.self) - 1)

\* The two cubics of a round cap at p with normal n, outward tangent t and
\* radius r: from p - n * r through p + t * r to p + n * r.
Semicircle(p, n, t, r) ==
    LET from == VSub(p, VMul(n, r))
        to == VAdd(p, VMul(n, r))
        top == VAdd(p, VMul(t, r))
        hat == VMul(VMul(t, r), CapHandle)
        nat == VMul(VMul(n, r), CapHandle)
    IN  <<Cubic(VAdd(from, hat), VSub(top, nat), top),
          Cubic(VAdd(top, nat), VAdd(to, hat), to)>>

\* The three Lines of a square cap at p with normal n, outward tangent t and
\* half width r: the offset end points p - n * r and p + n * r displaced by r
\* along t, then p + n * r.
SquareFlag(p, n, t, r) ==
    LET from == VSub(p, VMul(n, r))
        to == VAdd(p, VMul(n, r))
        hat == VMul(t, r)
    IN  <<Line(VAdd(from, hat)), Line(VAdd(to, hat)), Line(to)>>

\* The sides the last pass gave a round join: what stroke_round appended and
\* the r it was called with.
RoundSides ==
    LET r == HalfWidth(stroke)
    IN  IF ~(JoinStep /\ stroke.join = "Round") THEN {}
        ELSE (IF Concave(ev.n0.v, JoinN1, r) THEN {}
              ELSE {[segs |-> JoinSelf, r |-> r]})
             \cup (IF Concave(ev.n0.v, JoinN1, -r) THEN {}
                   ELSE {[segs |-> JoinOutside, r |-> -r]})

\* The normals of the last join have a direction and are not opposite.
ProperNormals ==
    ev.n0.v # ZERO /\ JoinN1 # ZERO /\ VAdd(ev.n0.v, JoinN1) # ZERO

\* The tolerance distances are compared within, 0.01.
Tolerance == Unit \div 100

\* The distance of q from the pivot of the last join is d, within Tolerance.
AtDistance(q, d) == Abs(Length(VSub(q, ev.p0)) - d) <= Tolerance

\* cos_theta_over_2 of the last join.
JoinCos ==
    FSqrt(FDiv(Unit + Dot(ev.n0.v, Normalize(VAdd(ev.n0.v, JoinN1))), 2 * Unit))

\* A round join is two conics of weight cos_theta_over_2 that end at
\* pivot + nmid * r and pivot + n1 * r.
TwoConics(side) ==
    LET nmid == Normalize(VAdd(ev.n0.v, JoinN1))
    IN  /\ Len(side.segs) = 2
        /\ side.segs[1].k = "Conic" /\ side.segs[2].k = "Conic"
        /\ side.segs[1].w = side.segs[2].w
        /\ side.segs[1].w = JoinCos
        /\ side.segs[1].p = VAdd(ev.p0, VMul(nmid, side.r))
        /\ side.segs[2].p = VAdd(ev.p0, VMul(JoinN1, side.r))

\* The last pass offset a Quad or a Cubic.
CurvePass == ev.seg.k \in {"Quad", "Cubic"}

\* The calls that appended a segment when the last pass offset its Quad or
\* Cubic by offset.
LeafCalls(offset) ==
    IF ev.seg.k = "Quad"
    THEN quad_calls(ev.p0, ev.seg.c1, ev.seg.p, offset, 0)
    ELSE cubic_call_logs[[p0 |-> ev.p0, s |-> ev.seg, offset |-> offset]]

\* The segments the offset call of the last pass appended: to the output for
\* offset r, to outside for -r.
Leaves(offset) ==
    IF offset = HalfWidth(stroke)
    THEN SubSeq(w.self, ev.joinLen + 1, ev.armLen)
    ELSE SubSeq(w.outside, ev.joinOutsideLen + 1, Len(w.outside))

\* The offsets of the last pass: r into the output, -r into outside.
PassOffsets == {HalfWidth(stroke), -HalfWidth(stroke)}

\* The last pass joined a Line to a Line at a right angle.
RightAngleLines ==
    /\ JoinStep
    /\ ev.seg.k = "Line"
    /\ curve[Len(curve) - 1].k = "Line"
    /\ Dot(ev.n0.v, JoinN1) = 0
    /\ Cross(ev.n0.v, JoinN1) # 0

(***************************************************************************)
(* C1.  Subpaths are stroked independently: for an input that starts with  *)
(* a Move, what a completed run appends to the output is the concatenation,*)
(* in input order, of what stroke_impl appends for each subpath stroked    *)
(* alone with the same stroke.                                             *)
(***************************************************************************)
C1_Independent ==
    (Done /\ StartsWithMove) => w.self = StrokedAlone(curve, 1, stroke)

(***************************************************************************)
(* C2.  At the end of an open subpath the output after the match is        *)
(* extended by the end cap at p0 with normal -n0 and tangent -n0.hat()     *)
(* (n0 the end normal of the last segment), the outside path in reverse,   *)
(* the start cap at first, and a Close.                                    *)
(***************************************************************************)
C2_EndOfOpenSubpath ==
    (EndsOpenSubpath /\ StartsWithMove /\ w.first.some /\ w.n0.some) =>
        LET n0 == w.n0.v
            matched == SubSeq(w.self, 1, ev.armLen)
            end_cap == stroke_line_cap(matched, w.p0, VNeg(n0), VNeg(Hat(n0)), stroke)
            reversed == AppendReverse(end_cap, w.outside)
            start_cap == stroke_line_cap(reversed, w.first.p, w.first.n,
                                         Hat(w.first.n), stroke)
        IN  w.self = CloseTo(start_cap)

(***************************************************************************)
(* C3.  Move(0,0), Line(10,0) stroked with width 2 and butt caps is one    *)
(* closed contour with the corners (0,1), (10,1), (10,-1), (0,-1) among    *)
(* its vertices and every vertex on that rectangle.                        *)
(***************************************************************************)
C3_Rectangle ==
    (/\ Done
     /\ curve = <<Move(P(0, 0)), Line(P(10, 0))>>
     /\ stroke.width = 2 * Unit
     /\ stroke.cap = "Butt") =>
        /\ {P(0, 1), P(10, 1), P(10, -1), P(0, -1)} \subseteq Vertices(w.self)
        /\ \A v \in Vertices(w.self) :
              /\ 0 <= v.x /\ v.x <= 10 * Unit
              /\ -Unit <= v.y /\ v.y <= Unit
              /\ v.x \in {0, 10 * Unit} \/ v.y \in {-Unit, Unit}
        /\ Count(w.self, "Move") = 1
        /\ Count(w.self, "Close") = 1

(***************************************************************************)
(* C4.  A closed subpath (Move, one or more drawing segments, Close)       *)
(* stroked alone gives exactly one contour: one Move and one Close.        *)
(***************************************************************************)
C4_OneContour ==
    (Done /\ ClosedSubpath) =>
        Count(w.self, "Move") = 1 /\ Count(w.self, "Close") = 1

(***************************************************************************)
(* C5.  A subpath with no drawing segment contributes nothing: a pass for  *)
(* a Move that a Move or the end of the input follows, or for a Close that *)
(* directly follows a Move, does not panic and appends nothing.            *)
(***************************************************************************)
C5_NoDrawable ==
    (MoveAlone \/ MoveThenClose) => pc # "panic" /\ Len(w.self) = ev.selfLen

(***************************************************************************)
(* C6.  An input whose first segment is not a Move is refused: the run     *)
(* does not complete and no segment is appended to the output.             *)
(***************************************************************************)
C6_DrawBeforeMove ==
    (Len(curve) >= 1 /\ curve[1].k # "Move") => pc # "done" /\ w.self = <<>>

(***************************************************************************)
(* C7.  A Line whose end point is the current point leaves n0 as it was    *)
(* and appends nothing in the match.                                       *)
(***************************************************************************)
C7_ZeroLength ==
    (ZeroLengthLine /\ StartsWithMove) => w.n0 = ev.n0 /\ ev.armLen = ev.selfLen

(***************************************************************************)
(* C9.  stroke_line_cap is called only at the end of an open subpath, and  *)
(* there exactly twice, for the end point and then for the start point: a  *)
(* pass that ends an open subpath makes two calls and any other pass, a    *)
(* pass for a Close among them, none; a completed run has made two calls   *)
(* for each open subpath with a drawing segment.                           *)
(***************************************************************************)
C9_Caps ==
    /\ Len(w.caps) - ev.capsLen = IF EndsOpenSubpath THEN 2 ELSE 0
    /\ EndsOpenSubpath =>
          /\ w.caps[Len(w.caps) - 1].p = w.p0
          /\ w.first.some
          /\ w.caps[Len(w.caps)] = CapCall(w.first.p, w.first.n, Hat(w.first.n))
    /\ Done => Len(w.caps) = 2 * OpenSubpaths(curve)

\* A completed run with a Close and an open end: the Close gave no cap, the
\* open end two.
C9_Witness ==
    /\ Done
    /\ Count(curve, "Close") = 1
    /\ Drawing(curve[Len(curve)])
    /\ Len(w.caps) = 2

(***************************************************************************)
(* C10.  Miter falls back to bevel at the limit: at a join with            *)
(* 1 / amount >= limit, stroke_miter appends what stroke_bevel appends for *)
(* the same pivot, n1 and r, a single Line to pivot + n1 * r, on either    *)
(* side; and that Line is what a miter-joined run appends there.           *)
(***************************************************************************)
C10_MiterFallback ==
    (JoinStep /\ MiterExceeds(MiterAmount, stroke.miter)) =>
        /\ \A r \in {HalfWidth(stroke), -HalfWidth(stroke)} :
              /\ stroke_miter(<<>>, ev.p0, ev.n0.v, JoinN1, r, stroke.miter)
                    = stroke_bevel(<<>>, ev.p0, JoinN1, r)
              /\ stroke_miter(<<>>, ev.p0, ev.n0.v, JoinN1, r, stroke.miter)
                    = <<Line(VAdd(ev.p0, VMul(JoinN1, r)))>>
        /\ stroke.join = "Miter" =>
              /\ SubSeq(w.self, ev.selfLen + 1, ev.joinLen)
                    = <<Line(VAdd(ev.p0, VMul(JoinN1, HalfWidth(stroke))))>>
              /\ SubSeq(w.outside, ev.outsideLen + 1, ev.joinOutsideLen)
                    = <<Line(VSub(ev.p0, VMul(JoinN1, HalfWidth(stroke))))>>

\* A miter join of a right-angle corner under a limit the corner exceeds.
C10_Witness ==
    /\ JoinStep
    /\ stroke.join = "Miter"
    /\ MiterExceeds(MiterAmount, stroke.miter)
    /\ Cross(ev.n0.v, JoinN1) # 0
    /\ Dot(ev.n0.v, JoinN1) = 0

(***************************************************************************)
(* C11.  A right-angle corner between two lines, join Miter, limit 4: the  *)
(* convex side gets exactly two Lines, to the apex pivot + (n0 + n1) * r   *)
(* and to pivot + n1 * r, the concave side exactly one Line, to            *)
(* pivot + n1 * r.  For Move(0,0), Line(10,0), Line(10,10), width 2 the    *)
(* outer apex is (11,-1) and the inner side gets the one Line.             *)
(***************************************************************************)
C11_MiterCorner ==
    (RightAngleLines /\ stroke.join = "Miter" /\ stroke.miter = 4 * Unit) =>
        LET n0 == ev.n0.v
            r == HalfWidth(stroke)
            selfConcave == Cross(n0, JoinN1) * r > 0
            convex == IF selfConcave THEN JoinOutside ELSE JoinSelf
            concave == IF selfConcave THEN JoinSelf ELSE JoinOutside
            rc == IF selfConcave THEN -r ELSE r
        IN  /\ convex = <<Line(VAdd(ev.p0, VMul(VAdd(n0, JoinN1), rc))),
                          Line(VAdd(ev.p0, VMul(JoinN1, rc)))>>
            /\ concave = <<Line(VSub(ev.p0, VMul(JoinN1, rc)))>>
            /\ (curve = <<Move(P(0, 0)), Line(P(10, 0)), Line(P(10, 10))>>
                    /\ stroke.width = 2 * Unit) =>
                  /\ JoinOutside = <<Line(P(11, -1)), Line(P(11, 0))>>
                  /\ JoinSelf = <<Line(P(9, 0))>>

\* The corner of Move(0,0), Line(10,0), Line(10,10) under width 2, Miter, 4.
C11_Witness ==
    /\ RightAngleLines
    /\ stroke.join = "Miter"
    /\ stroke.miter = 4 * Unit
    /\ curve = <<Move(P(0, 0)), Line(P(10, 0)), Line(P(10, 10))>>
    /\ Len(JoinOutside) = 2

(***************************************************************************)
(* C12.  With join Bevel every join appends exactly one Line on either     *)
(* side, whatever the turn direction: to pivot + n1 * r in the output and  *)
(* to pivot - n1 * r in outside, from the end point pivot + n0 * r (resp.  *)
(* pivot - n0 * r) of the offset segment before it.  For Move(0,0),        *)
(* Line(10,0), Line(10,10), width 2 the outer side has the diagonal edge   *)
(* from (10,-1) to (11,0) and no vertex at the apex (11,-1).               *)
(***************************************************************************)
C12_Bevel ==
    (JoinStep /\ stroke.join = "Bevel") =>
        LET n0 == ev.n0.v
            r == HalfWidth(stroke)
            selfBefore == LastBefore(w.self, ev.selfLen)
            outsideBefore == LastBefore(w.outside, ev.outsideLen)
        IN  /\ JoinSelf = <<Line(VAdd(ev.p0, VMul(JoinN1, r)))>>
            /\ JoinOutside = <<Line(VSub(ev.p0, VMul(JoinN1, r)))>>
            /\ Drawing(selfBefore) => selfBefore.p = VAdd(ev.p0, VMul(n0, r))
            /\ Drawing(outsideBefore)
            /\ outsideBefore.p = VSub(ev.p0, VMul(n0, r))
            /\ (curve = <<Move(P(0, 0)), Line(P(10, 0)), Line(P(10, 10))>>
                    /\ stroke.width = 2 * Unit) =>
                  /\ outsideBefore.p = P(10, -1)
                  /\ JoinOutside = <<Line(P(11, 0))>>
                  /\ P(11, -1) \notin Vertices(w.outside)
                  /\ P(11, -1) \notin Vertices(w.self)

\* The bevel join at the corner of Move(0,0), Line(10,0), Line(10,10).
C12_Witness ==
    /\ JoinStep
    /\ stroke.join = "Bevel"
    /\ curve = <<Move(P(0, 0)), Line(P(10, 0)), Line(P(10, 10))>>
    /\ ~Concave(ev.n0.v, JoinN1, -HalfWidth(stroke))

(***************************************************************************)
(* C13.  With cap Round each of the two open ends of an open subpath gets  *)
(* exactly two Cubics, from p - n * r through p + t * r to p + n * r with  *)
(* handles of length 0.55 * r: at the end point p0 with n = -n0 and        *)
(* t = -n0.hat(), n0 the unit end normal of the last segment, and at the   *)
(* start point with n = first.normal and t = first.normal.hat().  For      *)
(* Move(0,0), Line(10,0), width 2 the end cap runs through (11,0) to       *)
(* (10,-1) and the start cap through (-1,0) to (0,1).                      *)
(***************************************************************************)
C13_RoundCaps ==
    (/\ EndsOpenSubpath
     /\ StartsWithMove
     /\ stroke.cap = "Round"
     /\ w.first.some
     /\ w.n0.some) =>
        LET n0 == w.n0.v
            r == HalfWidth(stroke)
        IN  /\ EndCap(2) = Semicircle(w.p0, VNeg(n0), VNeg(Hat(n0)), r)
            /\ StartCap(2) = Semicircle(w.first.p, w.first.n, Hat(w.first.n), r)
            /\ Count(SubSeq(w.self, ev.armLen + 1, Len(w.self)), "Cubic")
                  = 4 + Count(w.outside, "Cubic")
            /\ (curve = <<Move(P(0, 0)), Line(P(10, 0))>>
                    /\ stroke.width = 2 * Unit) =>
                  /\ EndCap(2)[1].p = P(11, 0)
                  /\ EndCap(2)[2].p = P(10, -1)
                  /\ StartCap(2)[1].p = P(-1, 0)
                  /\ StartCap(2)[2].p = P(0, 1)

(***************************************************************************)
(* C14.  With cap Square each of the two open ends of an open subpath,     *)
(* whatever its last segment, gets three Lines: through the two offset end *)
(* points displaced by r along the outward tangent, then to the opposite   *)
(* offset end point; the outline reaches r beyond the end point at the     *)
(* end (normal -n0, n0 the unit end normal of the last segment) and at the *)
(* start.  For Move(0,0), Line(10,0), width 4 the end cap is (12,2),       *)
(* (12,-2), (10,-2) and the start cap (-2,-2), (-2,2), (0,2).              *)
(***************************************************************************)
C14_SquareCaps ==
    (/\ EndsOpenSubpath
     /\ StartsWithMove
     /\ stroke.cap = "Square"
     /\ w.first.some
     /\ w.n0.some) =>
        LET n0 == w.n0.v
            r == HalfWidth(stroke)
        IN  /\ EndCap(3) = SquareFlag(w.p0, VNeg(n0), VNeg(Hat(n0)), r)
            /\ StartCap(3) = SquareFlag(w.first.p, w.first.n, Hat(w.first.n), r)
            /\ (curve = <<Move(P(0, 0)), Line(P(10, 0))>>
                    /\ stroke.width = 4 * Unit) =>
                  /\ EndCap(3) = <<Line(P(12, 2)), Line(P(12, -2)), Line(P(10, -2))>>
                  /\ StartCap(3) = <<Line(P(-2, -2)), Line(P(-2, 2)), Line(P(0, 2))>>

C16_ErrorBound ==
    CurvePass =>
        \A offset \in PassOffsets :
            LET calls == LeafCalls(offset)
            IN  \A i \in 1..Len(calls) :
                    calls[i].depth < MAX_DEPTH => calls[i].error <= MAX_ERROR

(***************************************************************************)
(* C17.  offset_quad_bezier and offset_cubic_bezier called at depth 0      *)
(* return, never go deeper than depth 6 and append between 1 and 64        *)
(* segments, all Quad for a Quad and all Cubic for a Cubic, one per        *)
(* accepted piece of the source; the pieces are contiguous and in source   *)
(* order, from the start of the source to its end.                         *)
(***************************************************************************)
C17_BoundedLeaves ==
    CurvePass =>
        \A offset \in PassOffsets :
            LET calls == LeafCalls(offset)
                leaves == Leaves(offset)
            IN  /\ 1 <= Len(leaves) /\ Len(leaves) <= 64
                /\ Len(leaves) = Len(calls)
                /\ \A i \in 1..Len(leaves) : leaves[i].k = ev.seg.k
                /\ \A i \in 1..Len(calls) : calls[i].depth <= 6
                /\ calls[1].from = ev.p0
                /\ calls[Len(calls)].to = ev.seg.p
                /\ \A i \in 1..(Len(calls) - 1) : calls[i].to = calls[i + 1].from

\* A Cubic whose outside offset was divided down to the depth limit.
C17_Witness ==
    /\ ev.seg.k = "Cubic"
    /\ Len(Leaves(-HalfWidth(stroke))) = 64
    /\ \E i \in 1..64 : LeafCalls(-HalfWidth(stroke))[i].depth = 6

\* The last element of a non-empty sequence.
Last(seq) == seq[Len(seq)]

(***************************************************************************)
(* C18.  view_at covers stroked paths: when the topmost primitive of the   *)
(* canvas is an unmasked layer with a view whose topmost primitive is a    *)
(* Stroke, and the point, mapped into the layer, lies inside the stroke's  *)
(* outline under NonZero, view_at returns the layer's view.  When that     *)
(* topmost primitive is a Fill, it is a hit if the fill's curve contains   *)
(* the point under the fill's own rule, and, nothing else being drawn, no  *)
(* hit otherwise.                                                          *)
(***************************************************************************)
C18_StrokeHit ==
    (hit.asked /\ canvas[1].primitives # <<>>) =>
        LET layer == Last(canvas[1].primitives)
        IN  (/\ layer.kind = "Layer"
             /\ layer.view.some
             /\ ~layer.mask.some
             /\ layer.primitives # <<>>) =>
                LET inner == Apply(Inverse(layer.transform), hit.point)
                    top == Last(layer.primitives)
                    filled == CurveContains(top.curve, inner, top.fill)
                IN  /\ (top.kind = "Stroke"
                            /\ OutlineContains(top.curve, top.width, inner)) =>
                          hit.view = layer.view
                    /\ (top.kind = "Fill" /\ filled) => hit.view = layer.view
                    /\ (top.kind = "Fill" /\ ~filled /\ Size(canvas[1].primitives) = 2) =>
                          hit.view = NoView

\* Both calls of Stroke::hash have returned.
Hashed == \A i \in DOMAIN hasher : Len(hasher[i].state) = 4

\* The two Stroke values have the same bits: width and miter bit for bit,
\* cap and join equal.
SameBits ==
    /\ hasher[1].self.width = hasher[2].self.width
    /\ hasher[1].self.miter = hasher[2].self.miter
    /\ hasher[1].self.cap = hasher[2].self.cap
    /\ hasher[1].self.join = hasher[2].self.join

(***************************************************************************)
(* C19.  Stroke::hash feeds the hasher width.to_bits(), miter.to_bits(),   *)
(* cap and join, in that order; two Stroke values give the same hasher     *)
(* input if and only if width and miter agree bit for bit and cap and join *)
(* are equal, so values that are == but differ in a bit (0.0 and -0.0) are *)
(* hashed differently.                                                     *)
(***************************************************************************)
C19_HashBits ==
    /\ \A i \in DOMAIN hasher :
          LET self == hasher[i].self
              fed == <<WriteU32(to_bits(self.width)), WriteU32(to_bits(self.miter)),
                       WriteDiscriminant(CapDiscriminant(self.cap)),
                       WriteDiscriminant(JoinDiscriminant(self.join))>>
          IN  hasher[i].state = SubSeq(fed, 1, Len(hasher[i].state))
    /\ Hashed =>
          /\ hasher[1].state = hasher[2].state <=> SameBits
          /\ (StrokeEq(hasher[1].self, hasher[2].self) /\ ~SameBits) =>
                hasher[1].state # hasher[2].state
          /\ (hasher[1].self.width = PlusZero /\ hasher[2].self.width = MinusZero) =>
                hasher[1].state[1] # hasher[2].state[1]

\* Two Stroke values that are == and have been hashed differently.
C19_Witness ==
    /\ Hashed
    /\ StrokeEq(hasher[1].self, hasher[2].self)
    /\ hasher[1].self.width = PlusZero
    /\ hasher[2].self.width = MinusZero
    /\ hasher[1].state # hasher[2].state

(***************************************************************************)
(* C20.  A pass for a Close that follows a drawing segment of the subpath  *)
(* (n0 and first are present) appends to the output exactly: Close, Move   *)
(* to first.point - first.normal * r, the outside path in reverse, Close;  *)
(* no join and no offset edge for the closing corner.  It leaves p0, n0,   *)
(* first and outside as they were.                                         *)
(***************************************************************************)
C20_CloseArm ==
    [][(pc = "loop" /\ segments.k = "Close" /\ w.n0.some /\ w.first.some) =>
          LET r == HalfWidth(stroke)
              start == VSub(w.first.p, VMul(w.first.n, r))
          IN  /\ w'.self = w.self \o <<Close, Move(start)>>
                               \o AppendReverse(<<>>, w.outside) \o <<Close>>
              /\ w'.p0 = w.p0
              /\ w'.n0 = w.n0
              /\ w'.first = w.first
              /\ w'.outside = w.outside
              /\ pc' = "loop"]_vars

\* A Close after a drawing segment has been processed.
C20_Witness ==
    /\ ev.seg.k = "Close"
    /\ ev.n0.some
    /\ ev.first.some
    /\ pc # "panic"
    /\ Len(w.outside) >= 2
    /\ w.self[Len(w.self)] = Close

\* What the join style of the stroke appends at the pivot of the last join for
\* the offset r.
StyleJoin(r) ==
    CASE stroke.join = "Miter" ->
             stroke_miter(<<>>, ev.p0, ev.n0.v, JoinN1, r, stroke.miter)
      [] stroke.join = "Round" -> stroke_round(<<>>, ev.p0, ev.n0.v, JoinN1, r)
      [] stroke.join = "Bevel" -> stroke_bevel(<<>>, ev.p0, JoinN1, r)

\* The side offset by r is the inner side of the last join.
Inner(r) == Sgn(Cross(ev.n0.v, JoinN1)) * Sgn(r) > 0

(***************************************************************************)
(* C21.  A join on the side where cross(n0, n1) * r > 0 is exactly one     *)
(* Line to pivot + n1 * r, whatever the join style and the miter limit.    *)
(* The output is joined with r and outside with -r, so at a corner with    *)
(* cross(n0, n1) # 0 exactly one of the two takes this shortcut and the    *)
(* other receives the geometry of the join style; at a corner with         *)
(* cross(n0, n1) = 0 both receive the geometry of the join style.          *)
(***************************************************************************)
C21_TurnDirection ==
    JoinStep =>
        LET r == HalfWidth(stroke)
            shortcut(side) == <<Line(VAdd(ev.p0, VMul(JoinN1, side)))>>
        IN  /\ JoinSelf = IF Inner(r) THEN shortcut(r) ELSE StyleJoin(r)
            /\ JoinOutside = IF Inner(-r) THEN shortcut(-r) ELSE StyleJoin(-r)
            /\ Cross(ev.n0.v, JoinN1) # 0 => (Inner(r) <=> ~Inner(-r))
            /\ Cross(ev.n0.v, JoinN1) = 0 => (~Inner(r) /\ ~Inner(-r))

\* A corner that turns, joined by a style whose geometry is not one Line.
C21_Witness ==
    /\ JoinStep
    /\ Cross(ev.n0.v, JoinN1) # 0
    /\ stroke.join = "Round"
    /\ Len(JoinSelf) + Len(JoinOutside) = 3

\* The index of the last Move of c, 0 if c has none.
LastMove(c) ==
    LET moves == {i \in 1..Len(c) : c[i].k = "Move"}
    IN  IF moves = {} THEN 0 ELSE CHOOSE i \in moves : \A j \in moves : j <= i

\* The drawing segments of c after its last Move.
DrawnSinceMove(c) == {i \in (LastMove(c) + 1)..Len(c) : Drawing(c[i])}

\* The recorded anchor is the one of the first drawing segment after the last
\* Move: the point of the Move and the start normal of that segment.
AnchorKept ==
    (LastMove(curve) > 0 /\ DrawnSinceMove(curve) # {} /\ pc # "panic") =>
        LET m == LastMove(curve)
            d == CHOOSE i \in DrawnSinceMove(curve) :
                     \A j \in DrawnSinceMove(curve) : i <= j
        IN  /\ d = m + 1
            /\ w.first = SomeF(curve[m].p, segment_normal(curve[d], curve[m].p, T0).v)

(***************************************************************************)
(* C22.  A pass for Move(p) sets p0 = p and clears n0 and first and        *)
(* appends nothing.  The pass for the first drawing segment after a Move   *)
(* appends no join: it appends Move(p0 + n1 * r) to the output and         *)
(* Move(p0 - n1 * r) to outside and records first = (p0, n1).  The pass    *)
(* for every later drawing segment of the subpath appends a join to both   *)
(* and leaves first as it was, so that first is the anchor of the first    *)
(* drawing segment of the subpath until the next Move.                     *)
(***************************************************************************)
C22_SubpathStart ==
    [][/\ AnchorKept
       /\ (pc = "loop" /\ segments # End) =>
          LET r == HalfWidth(stroke)
              n1 == segment_normal(segments, w.p0, T0).v
              joinSelf == SubSeq(w'.self, Len(w.self) + 1, ev'.joinLen)
              joinOutside == SubSeq(w'.outside, Len(w.outside) + 1,
                                    ev'.joinOutsideLen)
          IN  /\ segments.k = "Move" =>
                    /\ w'.p0 = segments.p
                    /\ w'.n0 = NoneV
                    /\ w'.first = NoneF
                    /\ w'.self = w.self
                    /\ w'.outside = w.outside
              /\ (Drawing(segments) /\ LastMove(curve) > 0
                    /\ DrawnSinceMove(curve) = {}) =>
                    /\ joinSelf = <<Move(VAdd(w.p0, VMul(n1, r)))>>
                    /\ joinOutside = <<Move(VSub(w.p0, VMul(n1, r)))>>
                    /\ w'.first = SomeF(w.p0, n1)
              /\ (Drawing(segments) /\ LastMove(curve) > 0
                    /\ DrawnSinceMove(curve) # {}) =>
                    /\ joinSelf = stroke_join(<<>>, w.p0, w.n0.v, n1, r,
                                              stroke.join, stroke.miter)
                    /\ joinOutside = stroke_join(<<>>, w.p0, w.n0.v, n1, -r,
                                                 stroke.join, stroke.miter)
                    /\ w'.first = w.first]_vars

\* A second subpath whose second drawing segment has been processed.
C22_Witness ==
    /\ pc = "loop"
    /\ LastMove(curve) > 1
    /\ Cardinality(DrawnSinceMove(curve)) = 2
    /\ w.first.some

(***************************************************************************)
(* C23.  A cubic candidate is accepted below the signed threshold          *)
(* offset * MAX_ERROR.  For a Cubic stroked with a positive width the      *)
(* threshold of outside (offset -r) is negative and no error is, so no     *)
(* candidate of outside is accepted before depth MAX_DEPTH and outside     *)
(* receives exactly 64 Cubic segments whatever the shape of the curve; the *)
(* output (offset r) receives between 1 and 64.                            *)
(***************************************************************************)
C23_SignedThreshold ==
    ev.seg.k = "Cubic" =>
        LET r == HalfWidth(stroke)
            calls == LeafCalls(-r)
            leaves == Leaves(-r)
        IN  /\ r > 0
            /\ cubic_threshold(-r) < 0
            /\ Len(calls) = 64
            /\ \A i \in 1..Len(calls) :
                   calls[i].error >= 0 /\ calls[i].depth = MAX_DEPTH
            /\ Len(leaves) = 64
            /\ \A i \in 1..Len(leaves) : leaves[i].k = "Cubic"
            /\ 1 <= Len(Leaves(r)) /\ Len(Leaves(r)) <= 64

\* A Cubic whose two sides received different numbers of segments.
C23_Witness ==
    /\ ev.seg.k = "Cubic"
    /\ Len(Leaves(HalfWidth(stroke))) < Len(Leaves(-HalfWidth(stroke)))
    /\ Len(Leaves(-HalfWidth(stroke))) = 64

\* The last pass generated the caps of an open subpath.
CapsGenerated == Len(w.caps) > ev.capsLen

(***************************************************************************)
(* C24.  At the start of every pass through the loop of stroke_impl first  *)
(* is present if and only if n0 is.  So whenever caps are generated the    *)
(* start cap is built at the recorded anchor, never at the fallback        *)
(* (p0, n) of first.unwrap_or, and the n0.unwrap() of the Close arm fails  *)
(* exactly when first is absent.                                           *)
(***************************************************************************)
C24_FirstIffN0 ==
    /\ pc = "loop" => (w.first.some <=> w.n0.some)
    /\ ev.first.some <=> ev.n0.some
    /\ CapsGenerated =>
          /\ w.first.some
          /\ Len(w.caps) = ev.capsLen + 2
          /\ Last(w.caps) = CapCall(w.first.p, w.first.n, Hat(w.first.n))
    /\ ev.seg.k = "Close" => (pc = "panic" <=> ~ev.first.some)

\* Caps were generated for a subpath that started away from where it ends.
C24_Witness ==
    /\ CapsGenerated
    /\ ev.first.some
    /\ ev.n0.some
    /\ w.first.p # w.p0

\* The points a and b are the same within Tolerance.
Near(a, b) == Length(VSub(a, b)) <= Tolerance

(***************************************************************************)
(* C25.  Once a pass has offset a Line from p0 to p1 with normal n, the    *)
(* last point of the offset edge of the output is p1 + n * r and the last  *)
(* point of outside is p1 - n * r, mirror images across the path; and each *)
(* edge starts at p0 + n * r (p0 - n * r), where the move_to or the join   *)
(* before it ended.  The same for a Quad and a Cubic, with the normal of   *)
(* the curve at t = 0 where the edge starts and at t = 1 where it ends,    *)
(* within the tolerance of the arithmetic.                                 *)
(***************************************************************************)
C25_Lockstep ==
    Drawing(ev.seg) =>
        LET r == HalfWidth(stroke)
            entering == segment_normal(ev.seg, ev.p0, T0).v
            leaving == segment_normal(ev.seg, ev.p0, T1).v
            startSelf == w.self[ev.joinLen].p
            startOutside == w.outside[ev.joinOutsideLen].p
            endSelf == w.self[ev.armLen].p
            endOutside == Last(w.outside).p
        IN  /\ startSelf = VAdd(ev.p0, VMul(entering, r))
            /\ startOutside = VSub(ev.p0, VMul(entering, r))
            /\ Near(endSelf, VAdd(ev.seg.p, VMul(leaving, r)))
            /\ Near(endOutside, VSub(ev.seg.p, VMul(leaving, r)))
            /\ ev.seg.k = "Line" =>
                  /\ entering = leaving
                  /\ endSelf = VAdd(ev.seg.p, VMul(leaving, r))
                  /\ endOutside = VSub(ev.seg.p, VMul(leaving, r))
                  /\ VAdd(endSelf, endOutside) = VMul(ev.seg.p, 2 * Unit)

\* A Quad joined to a Line, offset on both sides.
C25_Witness ==
    /\ JoinStep
    /\ ev.seg.k = "Quad"
    /\ curve[Len(curve) - 1].k = "Line"
    /\ segment_normal(ev.seg, ev.p0, T0).v # segment_normal(ev.seg, ev.p0, T1).v
    /\ segment_normal(ev.seg, ev.p0, T0).v # ZERO

\* The topmost Rect, Fill or Image of primitives that contains point, looked
\* for from index i down and through layers as view_at does, with the view of
\* the nearest enclosing layer that has one (view outside of primitives).
RECURSIVE Attributed(_, _, _, _)
Attributed(primitives, view, point, i) ==
    IF i = 0 THEN [found |-> FALSE, view |-> NoView]
    ELSE LET primitive == primitives[i]
             below == Attributed(primitives, view, point, i - 1)
             here == [found |-> TRUE, view |-> view]
         IN  CASE primitive.kind = "Rect" ->
                    IF RectContains(primitive.rect, point) THEN here ELSE below
               [] primitive.kind = "Fill" ->
                    IF CurveContains(primitive.curve, point, primitive.fill)
                    THEN here ELSE below
               [] primitive.kind = "Stroke" -> below
               [] primitive.kind = "Image" ->
                    IF RectContains(RectMinSize(primitive.point, primitive.image),
                                    point)
                    THEN here ELSE below
               [] primitive.kind = "Layer" ->
                    LET inner == Apply(Inverse(primitive.transform), point)
                        masked ==
                            /\ primitive.mask.some
                            /\ ~CurveContains(primitive.mask.curve, inner,
                                              primitive.mask.fill)
                        enclosing ==
                            IF primitive.view.some THEN primitive.view ELSE view
                        within == Attributed(primitive.primitives, enclosing, inner,
                                             Len(primitive.primitives))
                    IN  IF masked THEN below
                        ELSE IF within.found THEN within ELSE below

\* No layer of primitives without a view holds a layer or is held by one.
RECURSIVE ViewsOnLayers(_, _)
ViewsOnLayers(primitives, inLayer) ==
    \A i \in 1..Len(primitives) :
        primitives[i].kind = "Layer" =>
            /\ (inLayer => primitives[i].view.some)
            /\ ViewsOnLayers(primitives[i].primitives, TRUE)

(***************************************************************************)
(* C26.  view_at looks at the primitives topmost first, through layers,    *)
(* the point mapped by the inverse transform of each layer and a layer     *)
(* whose mask does not contain the mapped point skipped, and gives a hit   *)
(* to the nearest enclosing layer that has a view: when the topmost Rect,  *)
(* Fill or Image that contains the point was drawn inside a layer with     *)
(* view v, also inside layers without a view nested in it, view_at returns *)
(* Some(v).                                                                *)
(***************************************************************************)
C26_NearestView ==
    hit.asked =>
        LET top == Attributed(canvas[1].primitives, NoView, hit.point,
                              Len(canvas[1].primitives))
        IN  (top.found /\ top.view.some) => hit.view = top.view

(***************************************************************************)
(* Ui (ui/ui.rs).  Delegates, windows (WindowUi), events and the command   *)
(* channel are not among the source files: a delegate or a window that is  *)
(* given an event may mark it handled and may send a command, a window     *)
(* returns requests, and a command sent through a CommandProxy is received *)
(* by command_rx in the order sent.  A call of Ui::event, Ui::event_all,   *)
(* Ui::add_window or Ui::handle_commands runs step by step, one step per   *)
(* event given to a delegate or a window, and handle_command calls         *)
(* event_all from within the call: ui.calls is the stack of the calls in   *)
(* progress.  needs_rebuild and request_rebuild do not take part in the    *)
(* dispatch and are left out.                                              *)
(***************************************************************************)
\* The most delegates pushed, commands sent during one call and commands
\* sent from outside of a call, and requests a Ui holds.
MaxDelegates == 2

MaxCommands == 1

MaxRequests == 1

WindowIds == {1, 2}

Commands == {"Quit", "Other"}

\* Event::new and Event::from(command): is::<Quit>() is name = "Quit".
NewEvent(name) == [name |-> name, handled |-> FALSE]

\* Ui::new; calls, sent and left are not fields of Ui: the calls in progress,
\* the commands sent during the call from outside, and whether a Quit command
\* has been given to the delegates and the windows and left unhandled.
UiNew ==
    [windows |-> {}, delegates |-> <<>>, queue |-> <<>>, requests |-> <<>>,
     quit_requested |-> FALSE, calls |-> <<>>, sent |-> 0, left |-> FALSE]

\* Ui::should_quit
should_quit(self) == self.windows = {} \/ self.quit_requested

\* A handle_builtin_commands that does not look at is_handled.
handle_builtin_commands_of_any(self, event) ==
    IF event.name = "Quit" THEN [self EXCEPT !.quit_requested = TRUE] ELSE self

\* Ui::handle_builtin_commands
handle_builtin_commands(self, event) ==
    IF event.name = "Quit" /\ ~event.handled
    THEN [self EXCEPT !.quit_requested = TRUE]
    ELSE self

\* The windows Ui::event and Ui::event_all (also called by handle_command)
\* give the event to once the delegates have had it, whatever the event.
event_windows_of_any(self, op, window, event) ==
    IF op = "event" THEN {window} \cap self.windows ELSE self.windows

\* if !event.is_handled() { ... }: self.windows.get_mut(&window_id) in
\* Ui::event, self.windows.values_mut() in Ui::event_all
event_windows(self, op, window, event) ==
    IF event.handled THEN {}
    ELSE IF op = "event" THEN {window} \cap self.windows ELSE self.windows

\* A call in progress: op is "event", "event_all", "command" (handle_command
\* and its event_all), "add_window" or "handle_commands"; at is where the call
\* is: "delegates" (event_delegate is about to give the event to delegate i),
\* "windows" (the windows of todo are still to be given the event) or
\* "commands" (handle_commands); log is what the call has given to whom.
Call(op, window, event, at) ==
    [op |-> op, window |-> window, event |-> event, at |-> at, i |-> 1,
     todo |-> {}, log |-> <<>>]

\* The call frame once the loop it is in has nothing left to do: the end of
\* the for loop of event_delegate, then the end of the loop over the windows.
Settled(self, frame) ==
    LET todo == event_windows(self, frame.op, frame.window, frame.event)
    IN  IF frame.at = "delegates" /\ frame.i > Len(self.delegates)
        THEN [frame EXCEPT !.todo = todo,
                           !.at = IF todo = {} THEN "commands" ELSE "windows"]
        ELSE IF frame.at = "windows" /\ frame.todo = {}
        THEN [frame EXCEPT !.at = "commands"]
        ELSE frame

\* What a delegate, a window or a builder may send while it runs, and the Ui
\* once it has sent it.
Sendable(self) == {"None"} \cup (IF self.sent < MaxCommands THEN Commands ELSE {})

Sent(self, command) ==
    IF command = "None" THEN self
    ELSE [self EXCEPT !.queue = Append(@, command), !.sent = @ + 1]

\* The requests the window id may return.
Returnable(self, id) ==
    {<<>>} \cup (IF Len(self.requests) < MaxRequests THEN {<<[window |-> id]>>}
                 ELSE {})

\* The Ui when a call from outside starts.
Called(self, op, window, event, at) ==
    [self EXCEPT !.sent = 0,
                 !.calls = <<Settled(self, Call(op, window, event, at))>>]

\* The Ui with the innermost call at frame.
Stepped(self, frame) ==
    [self EXCEPT !.calls[Len(self.calls)] = Settled(self, frame)]

\* No call is in progress; the innermost call is at the position at.
NoCall == ui.calls = <<>>

At(at) == ui.calls # <<>> /\ Last(ui.calls).at = at

InitUi ==
    /\ ui = UiNew
    /\ clickable = <<>>
    /\ stack = <<>>
    /\ StrokerIdle
    /\ CanvasIdle
    /\ HashIdle

\* Ui::push_delegate
UiPushDelegate ==
    /\ NoCall
    /\ Len(ui.delegates) < MaxDelegates
    /\ ui' = [ui EXCEPT !.delegates = Append(@, Len(@) + 1)]
    /\ UNCHANGED notUi

\* Ui::add_window up to self.handle_commands(data)
UiAddWindow ==
    /\ NoCall
    /\ \E id \in WindowIds, command \in Commands \cup {"None"} :
          ui' = Sent(Called([ui EXCEPT !.windows = @ \cup {id}], "add_window", id,
                            NewEvent("None"), "commands"), command)
    /\ UNCHANGED notUi

\* Ui::remove_window
UiRemoveWindow ==
    /\ NoCall
    /\ \E id \in ui.windows : ui' = [ui EXCEPT !.windows = @ \ {id}]
    /\ UNCHANGED notUi

\* Ui::take_requests
UiTakeRequests ==
    /\ NoCall
    /\ ui.requests # <<>>
    /\ ui' = [ui EXCEPT !.requests = <<>>]
    /\ UNCHANGED notUi

\* CommandProxy::cmd from outside of a call, through Ui::proxy()
UiProxySend ==
    /\ NoCall
    /\ Len(ui.queue) < MaxCommands
    /\ \E command \in Commands : ui' = [ui EXCEPT !.queue = Append(@, command)]
    /\ UNCHANGED notUi

\* Ui::handle_commands, called from outside
UiHandleCommands ==
    /\ NoCall
    /\ ui' = Called(ui, "handle_commands", 0, NewEvent("None"), "commands")
    /\ UNCHANGED notUi

\* Ui::event up to the first delegate
UiEvent ==
    /\ NoCall
    /\ \E id \in WindowIds, name \in {"Input", "Quit"} :
          ui' = Called(ui, "event", id, NewEvent(name), "delegates")
    /\ UNCHANGED notUi

\* Ui::event_all up to the first delegate
UiEventAll ==
    /\ NoCall
    /\ \E name \in {"Input", "Quit"} :
          ui' = Called(ui, "event_all", 0, NewEvent(name), "delegates")
    /\ UNCHANGED notUi

\* Ui::event_delegate: delegate.event(&mut cx, data, event)
UiDelegateEvent ==
    /\ At("delegates")
    /\ \E handles \in BOOLEAN, command \in Sendable(ui) :
          LET frame == Last(ui.calls)
              given == [who |-> "delegate", id |-> ui.delegates[frame.i],
                        handles |-> handles, requests |-> <<>>]
          IN  ui' = Stepped(Sent(ui, command),
                            [frame EXCEPT !.event.handled = @ \/ handles,
                                          !.i = @ + 1,
                                          !.log = Append(@, given)])
    /\ UNCHANGED notUi

\* let requests = window_ui.event(&mut base, data, event);
\* self.requests.extend(requests); the HashMap gives the windows in any order
UiWindowEvent ==
    /\ At("windows")
    /\ \E id \in Last(ui.calls).todo, handles \in BOOLEAN,
          command \in Sendable(ui) :
       \E requests \in Returnable(ui, id) :
          LET frame == Last(ui.calls)
              given == [who |-> "window", id |-> id, handles |-> handles,
                        requests |-> requests]
          IN  ui' = Stepped([Sent(ui, command) EXCEPT !.requests = @ \o requests],
                            [frame EXCEPT !.event.handled = @ \/ handles,
                                          !.todo = @ \ {id},
                                          !.log = Append(@, given)])
    /\ UNCHANGED notUi

\* while let Some(command) = self.command_rx.try_recv(): handle_command up to
\* the first delegate of its event_all
UiHandleCommand ==
    /\ At("commands")
    /\ ui.queue # <<>>
    /\ LET received == [ui EXCEPT !.queue = Tail(@)]
           frame == Call("command", 0, NewEvent(Head(ui.queue)), "delegates")
       IN  ui' = [received EXCEPT !.calls = Append(@, Settled(received, frame))]
    /\ UNCHANGED notUi

\* try_recv() gives None: handle_commands and the call return; the call of
\* event_all in handle_command returns to handle_builtin_commands(event)
UiReturn ==
    /\ At("commands")
    /\ ui.queue = <<>>
    /\ LET frame == Last(ui.calls)
           returned == [ui EXCEPT !.calls = SubSeq(@, 1, Len(@) - 1)]
       IN  ui' = IF frame.op = "command"
                 THEN [handle_builtin_commands(returned, frame.event) EXCEPT
                          !.left = @ \/ (frame.event.name = "Quit"
                                            /\ ~frame.event.handled)]
                 ELSE returned
    /\ UNCHANGED notUi

NextUi ==
    \/ UiPushDelegate
    \/ UiAddWindow
    \/ UiRemoveWindow
    \/ UiTakeRequests
    \/ UiProxySend
    \/ UiHandleCommands
    \/ UiEvent
    \/ UiEventAll
    \/ UiDelegateEvent
    \/ UiWindowEvent
    \/ UiHandleCommand
    \/ UiReturn

SpecUi == InitUi /\ [][NextUi]_vars

\* The windows that the call frame has given the event to.
GivenWindows(frame) ==
    {frame.log[j].id : j \in {l \in 1..Len(frame.log) : frame.log[l].who = "window"}}

\* The windows a call gives the event to when no delegate handles it.
Addressed(frame) ==
    IF frame.op = "event" THEN {frame.window} \cap ui.windows ELSE ui.windows

\* What the call frame has given to whom is in the order of the dispatch: the
\* delegates in the order pushed, then, if no delegate has marked the event
\* handled, windows the call addresses, none twice; and once the call is at
\* its handle_commands every delegate has had the event and, if none marked
\* it handled, every window addressed has.
InDispatchOrder(frame) ==
    LET n == Len(ui.delegates)
        given == frame.log
        unhandled == \A j \in 1..n : j <= Len(given) => ~given[j].handles
    IN  /\ \A j \in 1..Len(given) :
              IF j <= n
              THEN given[j].who = "delegate" /\ given[j].id = ui.delegates[j]
              ELSE /\ given[j].who = "window"
                   /\ unhandled
                   /\ given[j].id \in Addressed(frame)
                   /\ \A l \in (n + 1)..(j - 1) : given[l].id # given[j].id
        /\ frame.at = "commands" =>
              /\ Len(given) >= n
              /\ GivenWindows(frame) = IF unhandled THEN Addressed(frame) ELSE {}

(***************************************************************************)
(* C27.  Ui::event and Ui::event_all (and the event_all of a command) give *)
(* the event to every delegate, in the order the delegates were pushed,    *)
(* before any window; a window is given the event only if no delegate      *)
(* marked it handled: the target window of Ui::event, none if the id is    *)
(* unknown, every window for Ui::event_all.  The requests a window returns *)
(* are appended to the requests of the Ui, and when a call returns the     *)
(* command queue is empty.                                                 *)
(***************************************************************************)
C27_Dispatch ==
    [][/\ \A k \in 1..Len(ui.calls) :
             IF ui.calls[k].op \in {"event", "event_all", "command"}
             THEN InDispatchOrder(ui.calls[k])
             ELSE ui.calls[k].log = <<>>
       /\ At("windows") =>
             /\ Len(ui'.calls) = Len(ui.calls)
             /\ LET given == ui'.calls[Len(ui.calls)].log
                IN  /\ Len(given) = Len(ui.calls[Len(ui.calls)].log) + 1
                    /\ given[Len(given)].who = "window"
                    /\ ui'.requests = ui.requests \o given[Len(given)].requests
       /\ (At("delegates") \/ At("commands")) => ui'.requests = ui.requests
       /\ Len(ui'.calls) < Len(ui.calls) => (ui.queue = <<>> /\ ui'.queue = <<>>)]_vars

\* Ui::event has given an event to two delegates and its window, which
\* returned a request, and is handling a command sent meanwhile.
C27_Witness ==
    /\ Len(ui.calls) = 2
    /\ ui.calls[1].op = "event"
    /\ Len(ui.calls[1].log) = 3
    /\ ui.requests # <<>>
    /\ ui.calls[2].op = "command"
    /\ ui.calls[2].at = "commands"
    /\ Cardinality(GivenWindows(ui.calls[2])) = 2

(***************************************************************************)
(* C28.  Ui::should_quit is true exactly when there is no window or a Quit *)
(* command has been given to the delegates and the windows and left        *)
(* unhandled: a Quit command that a delegate or a window handles requests  *)
(* no quit.  Once a quit has been requested should_quit stays true         *)
(* whatever is done to the Ui, add_window included.                        *)
(***************************************************************************)
C28_ShouldQuit ==
    [][/\ should_quit(ui) <=> (ui.windows = {} \/ ui.left)
       /\ ui.quit_requested => (ui'.quit_requested /\ should_quit(ui'))]_vars

\* A quit has been requested and a window added since.
C28_Witness ==
    /\ NoCall
    /\ ui.quit_requested
    /\ should_quit(ui)
    /\ ui.windows = WindowIds
    /\ ui.delegates # <<>>

(***************************************************************************)
(* Clickable (views/click_handler.rs).  The view has the callbacks that    *)
(* are Some, its ClickableState and the active flag of its view state,     *)
(* which cx.set_active sets and cx.is_active reads; whether the view is    *)
(* hot and whether the content handles an event are given with the event.  *)
(* An event is [kind, position, handled], the position local to the view.  *)
(* calls is what the last event called, in order: the content with the     *)
(* event, the callbacks, the content with a ClickEvent.                    *)
(***************************************************************************)
\* Self::MAX_CLICK_DISTANCE
MAX_CLICK_DISTANCE == 10 * Unit

\* Clickable::new with the builders on_press, on_release and on_click applied
\* or not, after View::build
ClickableNew(on_press, on_release, on_click) ==
    [on_press |-> on_press, on_release |-> on_release, on_click |-> on_click,
     active |-> FALSE, click_start |-> ZERO, calls |-> <<>>, handled |-> FALSE]

\* if let Some(callback) = &mut self.callback { callback(cx, data) }
Callback(some, name) == IF some THEN <<name>> ELSE <<>>

\* An event of Clickable that takes a release for a click wherever it is.
ClickableEvent_of_any_distance(self, hot, event) ==
    LET content == <<"content">>
    IN  IF event.handled
        THEN [self EXCEPT !.calls = content, !.handled = TRUE]
        ELSE IF hot /\ event.kind = "press"
        THEN [self EXCEPT
                !.active = TRUE,
                !.click_start = event.position,
                !.handled = TRUE,
                !.calls = content \o Callback(self.on_press, "on_press")
                          \o <<"Press">>]
        ELSE IF self.active /\ event.kind = "release"
        THEN [self EXCEPT
                !.active = FALSE,
                !.handled = FALSE,
                !.calls = content \o Callback(self.on_release, "on_release")
                          \o <<"Release">>
                          \o Callback(self.on_click, "on_click") \o <<"Click">>]
        ELSE [self EXCEPT !.calls = content,
                          !.handled = hot /\ event.kind = "move"]

\* View::event of Clickable
ClickableEvent(self, hot, event) ==
    LET content == <<"content">>
        far == Length(VSub(event.position, self.click_start)) > MAX_CLICK_DISTANCE
    IN  IF event.handled
        THEN [self EXCEPT !.calls = content, !.handled = TRUE]
        ELSE IF hot /\ event.kind = "press"
        THEN [self EXCEPT
                !.active = TRUE,
                !.click_start = event.position,
                !.handled = TRUE,
                !.calls = content \o Callback(self.on_press, "on_press")
                          \o <<"Press">>]
        ELSE IF self.active /\ event.kind = "release"
        THEN [self EXCEPT
                !.active = FALSE,
                !.handled = FALSE,
                !.calls = content \o Callback(self.on_release, "on_release")
                          \o <<"Release">>
                          \o (IF far THEN <<>>
                              ELSE Callback(self.on_click, "on_click")
                                   \o <<"Click">>)]
        ELSE [self EXCEPT !.calls = content,
                          !.handled = hot /\ event.kind = "move"]

\* Where the pointer is: at the origin, at the distance 10 from it, farther.
PointerPositions == {P(0, 0), P(6, 8), P(11, 0)}

\* clickable is [view, event, hot, pressed]: the view, the last event and
\* whether the view was hot then, and whether the view has acted on a press
\* and on no release since.
InitClickable ==
    /\ \E on_press \in BOOLEAN, on_release \in BOOLEAN, on_click \in BOOLEAN :
          clickable = [view |-> ClickableNew(on_press, on_release, on_click),
                       event |-> [kind |-> "none", position |-> ZERO,
                                  handled |-> FALSE],
                       hot |-> FALSE, pressed |-> FALSE]
    /\ ui = <<>>
    /\ stack = <<>>
    /\ StrokerIdle
    /\ CanvasIdle
    /\ HashIdle

\* PointerEvent: is_press, is_release, is_move
PointerPressed ==
    /\ clickable # <<>>
    /\ \E position \in PointerPositions, handled \in BOOLEAN, hot \in BOOLEAN :
          LET event == [kind |-> "press", position |-> position,
                        handled |-> handled]
          IN  clickable' = [view |-> ClickableEvent(clickable.view, hot, event),
                            event |-> event, hot |-> hot,
                            pressed |-> clickable.pressed \/ (hot /\ ~handled)]
    /\ UNCHANGED notClickable

PointerReleased ==
    /\ clickable # <<>>
    /\ \E position \in PointerPositions, handled \in BOOLEAN, hot \in BOOLEAN :
          LET event == [kind |-> "release", position |-> position,
                        handled |-> handled]
          IN  clickable' = [view |-> ClickableEvent(clickable.view, hot, event),
                            event |-> event, hot |-> hot,
                            pressed |-> clickable.pressed /\ handled]
    /\ UNCHANGED notClickable

PointerMoved ==
    /\ clickable # <<>>
    /\ \E position \in PointerPositions, handled \in BOOLEAN, hot \in BOOLEAN :
          LET event == [kind |-> "move", position |-> position,
                        handled |-> handled]
          IN  clickable' = [view |-> ClickableEvent(clickable.view, hot, event),
                            event |-> event, hot |-> hot,
                            pressed |-> clickable.pressed]
    /\ UNCHANGED notClickable

NextClickable ==
    \/ PointerPressed
    \/ PointerReleased
    \/ PointerMoved

SpecClickable == InitClickable /\ [][NextClickable]_vars

\* The callbacks among the calls of an event, in the order called.
Callbacks(calls) ==
    LET IsCallback(name) == name \in {"on_press", "on_release", "on_click"}
    IN  SelectSeq(calls, IsCallback)

\* The names in a sequence of calls.
CallsOf(calls) == {calls[i] : i \in 1..Len(calls)}

(***************************************************************************)
(* C29.  When the content has not handled the event: a pointer press while *)
(* the view is hot sets active, records the position of the press and      *)
(* calls on_press; a pointer release is acted on only while the view is    *)
(* active, and then clears active and calls on_release; on_click is called *)
(* only on such a release and only if the release is within                *)
(* MAX_CLICK_DISTANCE = 10 of the recorded position of the press.  A       *)
(* release with no press on the view before it calls no callback, and      *)
(* on_click is not called unless on_release, if there is one, was called   *)
(* for the same event.                                                     *)
(***************************************************************************)
C29_PressRelease ==
    [][/\ clickable.view.active <=> clickable.pressed
       /\ LET before == clickable.view
              after == clickable'.view
              event == clickable'.event
              hot == clickable'.hot
              callbacks == Callbacks(after.calls)
              within == Length(VSub(event.position, before.click_start))
                            <= 10 * Unit
          IN  /\ (~event.handled /\ event.kind = "press" /\ hot) =>
                    /\ after.active
                    /\ after.click_start = event.position
                    /\ callbacks = Callback(before.on_press, "on_press")
              /\ (~event.handled /\ event.kind = "release" /\ before.active) =>
                    /\ ~after.active
                    /\ callbacks =
                          Callback(before.on_release, "on_release")
                          \o (IF within THEN Callback(before.on_click, "on_click")
                              ELSE <<>>)
              /\ (event.kind = "release" /\ ~before.active) =>
                    (callbacks = <<>> /\ after.active = before.active)
              /\ (event.kind = "release" /\ ~clickable.pressed) => callbacks = <<>>
              /\ "on_release" \in CallsOf(callbacks) =>
                    (event.kind = "release" /\ before.active /\ ~event.handled)
              /\ "on_click" \in CallsOf(callbacks) =>
                    /\ event.kind = "release" /\ before.active /\ ~event.handled
                    /\ within
                    /\ before.on_release => "on_release" \in CallsOf(callbacks)
              /\ event.handled =>
                    /\ callbacks = <<>>
                    /\ after.active = before.active
                    /\ after.click_start = before.click_start]_vars

\* A press at the origin, then a release at the distance 10 from it that
\* called on_release and on_click.
C29_Witness ==
    /\ clickable.event.kind = "release"
    /\ clickable.event.position = P(6, 8)
    /\ clickable.view.click_start = P(0, 0)
    /\ Callbacks(clickable.view.calls) = <<"on_release", "on_click">>
    /\ ~clickable.view.active

(***************************************************************************)
(* Stack (views/stack.rs): Stack::measure_fixed.  A child is [major,       *)
(* minor, flex]: the size layout_nth returns for it along the axis of the  *)
(* stack and across it, and its flex (0.0: not flex).  The sizes are small *)
(* whole numbers, which f32 adds and compares exactly.  stack holds the    *)
(* children, wrap, the arguments gap_major, max_major and max_minor, the   *)
(* locals of measure_fixed and the StackState.                             *)
(***************************************************************************)
\* The most children of a stack.
MaxChildren == 3

Min(a, b) == IF a <= b THEN a ELSE b

Max(a, b) == IF a >= b THEN a ELSE b

\* StackLine
StackLine(start, end, major, minor, flex_sum) ==
    [start |-> start, end |-> end, major |-> major, minor |-> minor,
     flex_sum |-> flex_sum]

\* The children a stack is made of and the stacks measured.
Children ==
    {[major |-> 1, minor |-> 1, flex |-> 0],
     [major |-> 3, minor |-> 2, flex |-> 0],
     [major |-> 3, minor |-> 1, flex |-> 1]}

Contents == UNION {[1..n -> Children] : n \in 1..MaxChildren}

\* measure_fixed up to the loop: state.lines.clear() and the locals at 0;
\* majors and minors are vec![0.0; len] (StackState::new)
MeasureFixed(content, wrap, gap_major, max_major, max_minor) ==
    [content |-> content, wrap |-> wrap, gap_major |-> gap_major,
     max_major |-> max_major, max_minor |-> max_minor,
     i |-> 0, major |-> 0, minor |-> 0, flex_sum |-> 0, start |-> 0,
     lines |-> <<>>, majors |-> [j \in 1..Len(content) |-> 0],
     minors |-> [j \in 1..Len(content) |-> 0], at |-> "for"]

\* The body of for i in 0..self.content.len(), for the child of index self.i
\* (the children are numbered from 0 in the code, from 1 in content)
measure_child(self) ==
    LET child == self.content[self.i + 1]
        child_major ==
            IF child.flex > 0 THEN Min(child.major, self.max_major) ELSE child.major
        child_minor ==
            IF child.flex > 0 THEN Min(child.minor, self.max_minor) ELSE child.minor
        gap == IF self.i > 0 THEN self.gap_major ELSE 0
        measured == [self EXCEPT !.majors[self.i + 1] = child_major,
                                 !.minors[self.i + 1] = child_minor,
                                 !.i = @ + 1]
    IN  IF self.major + child_major + gap > self.max_major /\ self.wrap
        THEN [measured EXCEPT
                !.lines = Append(@, StackLine(self.start, self.i, self.major,
                                              Min(self.minor, self.max_minor),
                                              self.flex_sum)),
                !.start = self.i,
                !.major = child_major,
                !.minor = child_minor,
                !.flex_sum = child.flex]
        ELSE [measured EXCEPT
                !.major = @ + child_major + gap,
                !.minor = Max(@, child_minor),
                !.flex_sum = @ + child.flex]

\* The push of the last line after the loop.
measure_end(self) ==
    [self EXCEPT
        !.lines = Append(@, StackLine(self.start, Len(self.content), self.major,
                                      Min(self.minor, self.max_minor),
                                      self.flex_sum)),
        !.at = "return"]

InitStack ==
    /\ \E content \in Contents, wrap \in BOOLEAN, gap_major \in {0, 1},
          max_major \in {2, 4} :
          stack = MeasureFixed(content, wrap, gap_major, max_major, 1)
    /\ ui = <<>>
    /\ clickable = <<>>
    /\ StrokerIdle
    /\ CanvasIdle
    /\ HashIdle

\* One pass through the loop of measure_fixed.
StackMeasureChild ==
    /\ stack # <<>>
    /\ stack.at = "for"
    /\ stack.i < Len(stack.content)
    /\ stack' = measure_child(stack)
    /\ UNCHANGED notStack

\* The loop is over: the last line is pushed and measure_fixed returns.
StackMeasureEnd ==
    /\ stack # <<>>
    /\ stack.at = "for"
    /\ stack.i = Len(stack.content)
    /\ stack' = measure_end(stack)
    /\ UNCHANGED notStack

NextStack ==
    \/ StackMeasureChild
    \/ StackMeasureEnd

SpecStack == InitStack /\ [][NextStack]_vars

\* The lines of the stack partition the indices of its children, the lines
\* from index from on not empty.
LinesPartition(from) ==
    LET lines == stack.lines
    IN  /\ lines # <<>>
        /\ lines[1].start = 0
        /\ \A l \in 1..(Len(lines) - 1) : lines[l + 1].start = lines[l].end
        /\ lines[Len(lines)].end = Len(stack.content)
        /\ \A l \in from..Len(lines) : lines[l].start < lines[l].end
        /\ ~stack.wrap => Len(lines) = 1

(***************************************************************************)
(* C30.  After Stack::measure_fixed on a stack with at least one child the *)
(* lines of the state partition the indices of the children: the first     *)
(* line starts at 0, each line starts where the line before it ends, the   *)
(* last line ends at the number of children, no line is empty              *)
(* (start < end), and there is one line when wrap is false; for all sizes  *)
(* of the children, gap and max_major, a first child larger than max_major *)
(* with wrap enabled included.                                             *)
(***************************************************************************)
C30_LinesPartition ==
    (stack.at = "return" /\ Len(stack.content) >= 1) => LinesPartition(1)
====
